---- MODULE Spec2Model ----
(***************************************************************************)
(* Model of the submission intake pipeline of DOCUPLOAD:                   *)
(*   src/app.py      the three intake handlers /upload, /submit and        *)
(*                   /rfpi-submit (archive assembly, storage, scan          *)
(*                   dispatch, responses)                                   *)
(*   src/scanner.py  wait_for_scan_result, quarantine_blob,                 *)
(*                   update_blob_scan_status                                *)
(* The Azure services (blob storage, Defender for Storage, the copy        *)
(* engine) are the environment: every call into them either takes effect   *)
(* or raises, and Defender and the copy engine act on their own schedule.  *)
(***************************************************************************)
EXTENDS Integers, Sequences, FiniteSets, TLC

\* ------------------------------------------------------------------ bounds

MaxPuts     == 2    \* requests served one after another under RetrySpec
NumIds      == 2    \* size of the set uuid4() is drawn from
MaxTime     == 3    \* instants datetime.now() is drawn from
MaxLatency  == 1    \* seconds one storage round trip may take
MaxContent  == 0    \* file payload variants

\* ------------------------------------------------------- program constants

SCAN_TIMEOUT       == 30   \* timeout=30 passed by every handler
SCAN_POLL_INTERVAL == 2    \* scanner.py: SCAN_POLL_INTERVAL default
COPY_STATUS_TIMEOUT == 30  \* scanner.py: copy_status_timeout
COPY_POLL_SLEEP    == 1    \* scanner.py: time.sleep(1)
SecondsPerDay      == 2    \* instants of the model that share one %Y/%m/%d

Handlers == {"upload", "submit", "rfpi"}
Ids      == 1..NumIds
Times    == 1..MaxTime
Latency  == 0..MaxLatency
Contents == 0..MaxContent

\* strftime('%Y/%m/%d') of an instant
Day(t) == (t + SecondsPerDay - 1) \div SecondsPerDay

\* -------------------------------------------------------------------- text

\* A str is a string of the model; its characters are read through Spell.
LowerSeq ==
    <<
       "a", "b", "c", "d", "e", "f", "g", "h", "i", "j", "k", "l", "m",
       "n", "o", "p", "q", "r", "s", "t", "u", "v", "w", "x", "y", "z" >>
UpperSeq ==
    <<
       "A", "B", "C", "D", "E", "F", "G", "H", "I", "J", "K", "L", "M",
       "N", "O", "P", "Q", "R", "S", "T", "U", "V", "W", "X", "Y", "Z" >>
DigitSeq ==
    <<
       "0", "1", "2", "3", "4", "5", "6", "7", "8", "9" >>
Range(s) == { s[i] : i \in 1..Len(s) }
Lower  == Range(LowerSeq)
Upper  == Range(UpperSeq)
Digits == Range(DigitSeq)

\* The strings that requests of the model carry (tag keys and values, file
\* names, form field names).
TagKeyStrings   == { "project", "proj-1", "Proj_1", "scanStatus", "fileCount", "env\n", "", "aaaaaaaaaaaaaaaaaaaaaaaaaaaaaaaaa" }
TagValueStrings == { "alpha", "Battery Pack #7", "Battery Pack 7", "clean", "9", "v1.0_rc-2", "line\n", "" }
FileNames       == { "r.pdf", "a.xls", "a.xlsx", "a.PNG", "a.jpg", "a.csv", "a.txt", "noext", "my report.pdf", "../r.pdf", ".hidden", "c.docx" }
FieldNames      == { "doc", "a b", "a_b", "photo" }

\* The characters of each of these strings, in order.
SpellTable ==
    "project" :> <<"p", "r", "o", "j", "e", "c", "t">> @@
    "unknown" :> <<"u", "n", "k", "n", "o", "w", "n">> @@
    "files/doc_r.pdf" :> <<"f", "i", "l", "e", "s", "/", "d", "o", "c", "_", "r", ".", "p", "d", "f">> @@
    "manifest.json" :> <<"m", "a", "n", "i", "f", "e", "s", "t", ".", "j", "s", "o", "n">> @@
    "a/r.pdf" :> <<"a", "/", "r", ".", "p", "d", "f">> @@
    "b/r.pdf" :> <<"b", "/", "r", ".", "p", "d", "f">> @@
    "old-manifest.json" :> <<"o", "l", "d", "-", "m", "a", "n", "i", "f", "e", "s", "t", ".", "j", "s", "o", "n">> @@
    "MANIFEST.JSON" :> <<"M", "A", "N", "I", "F", "E", "S", "T", ".", "J", "S", "O", "N">> @@
    "s1.zip" :> <<"s", "1", ".", "z", "i", "p">> @@
    "s1.bin" :> <<"s", "1", ".", "b", "i", "n">> @@
    "proj-1" :> <<"p", "r", "o", "j", "-", "1">> @@
    "Proj_1" :> <<"P", "r", "o", "j", "_", "1">> @@
    "scanStatus" :> <<"s", "c", "a", "n", "S", "t", "a", "t", "u", "s">> @@
    "fileCount" :> <<"f", "i", "l", "e", "C", "o", "u", "n", "t">> @@
    "env\n" :> <<"e", "n", "v", "\n">> @@
    "" :> <<>> @@
    "aaaaaaaaaaaaaaaaaaaaaaaaaaaaaaaaa" :> <<"a", "a", "a", "a", "a", "a", "a", "a", "a", "a", "a", "a", "a", "a", "a", "a", "a", "a", "a", "a", "a", "a", "a", "a", "a", "a", "a", "a", "a", "a", "a", "a", "a">> @@
    "alpha" :> <<"a", "l", "p", "h", "a">> @@
    "Battery Pack #7" :> <<"B", "a", "t", "t", "e", "r", "y", " ", "P", "a", "c", "k", " ", "#", "7">> @@
    "Battery Pack 7" :> <<"B", "a", "t", "t", "e", "r", "y", " ", "P", "a", "c", "k", " ", "7">> @@
    "clean" :> <<"c", "l", "e", "a", "n">> @@
    "9" :> <<"9">> @@
    "v1.0_rc-2" :> <<"v", "1", ".", "0", "_", "r", "c", "-", "2">> @@
    "line\n" :> <<"l", "i", "n", "e", "\n">> @@
    "r.pdf" :> <<"r", ".", "p", "d", "f">> @@
    "a.xls" :> <<"a", ".", "x", "l", "s">> @@
    "a.xlsx" :> <<"a", ".", "x", "l", "s", "x">> @@
    "a.PNG" :> <<"a", ".", "P", "N", "G">> @@
    "a.jpg" :> <<"a", ".", "j", "p", "g">> @@
    "a.csv" :> <<"a", ".", "c", "s", "v">> @@
    "a.txt" :> <<"a", ".", "t", "x", "t">> @@
    "noext" :> <<"n", "o", "e", "x", "t">> @@
    "my report.pdf" :> <<"m", "y", " ", "r", "e", "p", "o", "r", "t", ".", "p", "d", "f">> @@
    "../r.pdf" :> <<".", ".", "/", "r", ".", "p", "d", "f">> @@
    ".hidden" :> <<".", "h", "i", "d", "d", "e", "n">> @@
    "doc" :> <<"d", "o", "c">> @@
    "a b" :> <<"a", " ", "b">> @@
    "a_b" :> <<"a", "_", "b">> @@
    "photo" :> <<"p", "h", "o", "t", "o">> @@
    "generic-form" :> <<"g", "e", "n", "e", "r", "i", "c", "-", "f", "o", "r", "m">> @@
    "upload-project-artifacts" :> <<"u", "p", "l", "o", "a", "d", "-", "p", "r", "o", "j", "e", "c", "t", "-", "a", "r", "t", "i", "f", "a", "c", "t", "s">> @@
    "c.docx" :> <<"c", ".", "d", "o", "c", "x">> @@
    "word/document.xml" :> <<"w", "o", "r", "d", "/", "d", "o", "c", "u", "m", "e", "n", "t", ".", "x", "m", "l">> @@
    "ppt/slides/slide1.xml" :> <<"p", "p", "t", "/", "s", "l", "i", "d", "e", "s", "/", "s", "l", "i", "d", "e", "1", ".", "x", "m", "l">> @@
    "xl/workbook.xml" :> <<"x", "l", "/", "w", "o", "r", "k", "b", "o", "o", "k", ".", "x", "m", "l">>

Spell(s) == SpellTable[s]

\* "".join(chars)
RECURSIVE Join(_)
Join(chars) == IF chars = <<>> THEN "" ELSE Head(chars) \o Join(Tail(chars))

\* str.lower() on one character
LowerChar(ch) ==
    IF ch \in Upper
    THEN LowerSeq[CHOOSE i \in 1..Len(UpperSeq) : UpperSeq[i] = ch]
    ELSE ch

\* re.match(r'^[class]{lo,hi}$', s) is not None. In Python "$" matches at
\* the end of the string and also just before a newline that ends the string.
InClass(chars, class, lo, hi) ==
    /\ Len(chars) >= lo
    /\ Len(chars) <= hi
    /\ \A i \in 1..Len(chars) : chars[i] \in class

ReMatch(chars, class, lo, hi) ==
    \/ InClass(chars, class, lo, hi)
    \/ /\ Len(chars) >= 1
       /\ chars[Len(chars)] = "\n"
       /\ InClass(SubSeq(chars, 1, Len(chars) - 1), class, lo, hi)

\* str.split(): the maximal runs of non-whitespace characters
RECURSIVE Words(_, _, _)
Words(chars, word, acc) ==
    IF chars = <<>>
    THEN IF word = <<>> THEN acc ELSE Append(acc, word)
    ELSE IF Head(chars) \in {" ", "\n"}
    THEN Words(Tail(chars), <<>>, IF word = <<>> THEN acc ELSE Append(acc, word))
    ELSE Words(Tail(chars), Append(word, Head(chars)), acc)

\* "_".join(words)
RECURSIVE JoinWords(_)
JoinWords(words) ==
    IF words = <<>> THEN <<>>
    ELSE IF Len(words) = 1 THEN words[1]
    ELSE words[1] \o << "_" >> \o JoinWords(Tail(words))

\* the characters _filename_ascii_strip_re ([^A-Za-z0-9_.-]) leaves in place
FilenameChar(ch) == ch \in Lower \cup Upper \cup Digits \cup {"_", ".", "-"}

\* str.strip("._")
RECURSIVE Strip(_)
Strip(chars) ==
    IF chars = <<>> THEN <<>>
    ELSE IF Head(chars) \in {".", "_"} THEN Strip(Tail(chars))
    ELSE IF chars[Len(chars)] \in {".", "_"} THEN Strip(SubSeq(chars, 1, Len(chars) - 1))
    ELSE chars

\* werkzeug.utils.secure_filename on the characters of a name: path
\* separators become spaces, whitespace runs become "_", characters outside
\* [A-Za-z0-9_.-] are dropped, leading and trailing "." and "_" are stripped.
SecureChars(chars) ==
    LET spaced == [i \in 1..Len(chars) |-> IF chars[i] = "/" THEN " " ELSE chars[i]]
    IN  Strip(SelectSeq(JoinWords(Words(spaced, <<>>, <<>>)), FilenameChar))

secure_filename(name) == Join(SecureChars(Spell(name)))

\* ------------------------------------------------------------------- tags

\* The character classes of the two patterns.
TagKeyClass   == Lower \cup Digits \cup {"-"}
TagValueClass == Lower \cup Upper \cup Digits \cup {" ", "_", ".", "-"}

\* Variant: the key pattern compiled with re.IGNORECASE.
validate_tag_key_IgnoreCase(key) ==
    LET chars == Spell(key)
    IN  ReMatch([i \in 1..Len(chars) |-> LowerChar(chars[i])], TagKeyClass, 1, 32)

\* re.match(r'^[a-z0-9-]{1,32}$', key) is not None
validate_tag_key(key) == ReMatch(Spell(key), TagKeyClass, 1, 32)

\* re.match(r'^[A-Za-z0-9 _.-]{1,64}$', value) is not None, for a str value
validate_tag_value(value) == ReMatch(Spell(value), TagValueClass, 1, 64)

\* A value of the parsed tags JSON: a str, or something else (a number, a
\* list, null), on which re.match raises TypeError.
JsonStr(s)   == [str |-> TRUE, text |-> s]
JsonOther(s) == [str |-> FALSE, text |-> s]

\* A dict is the sequence of its (key, value) pairs in insertion order.
DictKeys(d) == { d[i][1] : i \in 1..Len(d) }
DictGet(d, k) == d[CHOOSE i \in 1..Len(d) : d[i][1] = k][2]
DictPut(d, k, v) ==
    IF k \in DictKeys(d)
    THEN [i \in 1..Len(d) |-> IF d[i][1] = k THEN << k, v >> ELSE d[i]]
    ELSE Append(d, << k, v >>)

\* {**a, **b}
RECURSIVE DictMerge(_, _)
DictMerge(a, b) ==
    IF b = <<>> THEN a
    ELSE DictMerge(DictPut(a, b[1][1], b[1][2]), Tail(b))

\* for k, v in tags.items(): the validation loop of /upload and /submit.
\* "invalid": 400 naming the pair; "TypeError": re.match raised on a value
\* that is no str; "ok": every pair copied to validated_tags.
RECURSIVE ValidateTags(_, _)
ValidateTags(tags, validated) ==
    IF tags = <<>> THEN [outcome |-> "ok", tags |-> validated, pair |-> <<>>]
    ELSE LET k == tags[1][1]
             v == tags[1][2]
         IN  IF ~validate_tag_key(k)
             THEN [outcome |-> "invalid", tags |-> <<>>, pair |-> tags[1]]
             ELSE IF ~v.str
             THEN [outcome |-> "TypeError", tags |-> <<>>, pair |-> tags[1]]
             ELSE IF ~validate_tag_value(v.text)
             THEN [outcome |-> "invalid", tags |-> <<>>, pair |-> tags[1]]
             ELSE ValidateTags(Tail(tags), DictPut(validated, k, v.text))

reserved_keys ==
    { "documentType", "sourceForm", "submittedAt", "submittedBy", "submissionId",
      "scanStatus", "scanProvider", "scanRequestedAt", "scanCompletedAt" }

\* handle_reserved_tags: a key that collides with a reserved key is stored
\* under 'user.' + key.
RECURSIVE handle_reserved_tags(_)
handle_reserved_tags(user_tags) ==
    IF user_tags = <<>> THEN <<>>
    ELSE LET k == user_tags[Len(user_tags)][1]
             v == user_tags[Len(user_tags)][2]
             before == handle_reserved_tags(SubSeq(user_tags, 1, Len(user_tags) - 1))
         IN  DictPut(before, IF k \in reserved_keys THEN "user." \o k ELSE k, v)

\* str(value).lower().replace(' ', '_')[:256]
normalize_tag_for_index(value) ==
    LET chars == Spell(value)
        out == [i \in 1..Len(chars) |->
                   IF chars[i] = " " THEN "_" ELSE LowerChar(chars[i])]
    IN  Join(SubSeq(out, 1, IF Len(out) < 256 THEN Len(out) ELSE 256))

\* str(n) for a small count
StrOfNat(n) == DigitSeq[n + 1]

\* The form field "tags" of a request: absent, or the parsed JSON object.
NoTags == [present |-> FALSE, dict |-> <<>>]
Tags(dict) == [present |-> TRUE, dict |-> dict]

ProjectAlpha == << "project", JsonStr("alpha") >>

RequestTags ==
    { NoTags,
      Tags(<< >>),
      Tags(<< ProjectAlpha >>),
      Tags(<< ProjectAlpha, << "scanStatus", JsonStr("clean") >> >>),
      Tags(<< ProjectAlpha, << "fileCount", JsonStr("9") >> >>),
      Tags(<< ProjectAlpha, << "Proj_1", JsonStr("alpha") >> >>),
      Tags(<< ProjectAlpha, << "env\n", JsonStr("Battery Pack 7") >> >>),
      Tags(<< << "project", JsonOther("7") >> >>) }

\* A tag set every handler accepts: the required project tag for /upload,
\* no tags field for the others.
PlainTags(h) == IF h = "upload" THEN Tags(<< ProjectAlpha >>) ELSE NoTags

\* The tag checks of a handler, in order: /upload requires the field and
\* the project key; /upload and /submit run the validation loop;
\* /rfpi-submit reads no tags.
CheckRequestTags(h, tags) ==
    IF h = "rfpi"
    THEN [outcome |-> "ok", tags |-> <<>>, pair |-> <<>>]
    ELSE IF h = "upload" /\ ~tags.present
    THEN [outcome |-> "missing", tags |-> <<>>, pair |-> <<>>]
    ELSE IF h = "upload" /\ "project" \notin DictKeys(tags.dict)
    THEN [outcome |-> "no_project", tags |-> <<>>, pair |-> <<>>]
    ELSE ValidateTags(tags.dict, <<>>)

\* The 'details' message of a 400 answer to a refused tag set.
TagsMessage(check) ==
    CASE check.outcome = "missing"    -> << "Missing required tags" >>
      [] check.outcome = "no_project" -> << "Missing required tag: project" >>
      [] check.outcome = "invalid"    ->
            << "Invalid tag format", check.pair[1], check.pair[2].text >>

\* ---------------------------------------------------------------- streams

\* A byte is a token: a printable character, "xHH" for the byte HH, and, in
\* a zip container, one token per directory entry (the entry's name) and
\* "EOCD" for the end-of-central-directory record.
PDF_SIG  == << "%", "P", "D", "F", "-" >>
PK_SIG   == << "P", "K" >>
XLS_SIG  == << "xD0", "xCF", "x11", "xE0", "xA1", "xB1", "x1A", "xE1" >>
PNG_SIG  == << "x89", "P", "N", "G", "CR", "LF", "x1A", "LF" >>
JPEG_SIG == << "xFF", "xD8", "xFF" >>

\* Bytes that cannot occur where the model's streams have them in UTF-8.
NonUtf8 == { "xD0", "xCF", "xE0", "xA1", "xB1", "xE1", "x89", "xFF", "xD8", "xFE" }

ZipEntryNames ==
    { "word/document.xml", "ppt/slides/slide1.xml", "xl/workbook.xml" }

\* bytes.startswith(sig)
StartsWith(data, sig) ==
    /\ Len(data) >= Len(sig)
    /\ SubSeq(data, 1, Len(sig)) = sig

Min(a, b) == IF a < b THEN a ELSE b

\* stream.seek(n)
Seek(stream, n) == [stream EXCEPT !.pos = n]

\* stream.read(n): the bytes from the cursor, at most n, and the moved cursor
Read(stream, n) ==
    LET end == Min(stream.pos + n, Len(stream.bytes))
    IN  [data   |-> SubSeq(stream.bytes, stream.pos + 1, end),
         stream |-> [stream EXCEPT !.pos = IF end > stream.pos THEN end ELSE stream.pos]]

\* zipfile.ZipFile(stream, 'r'): the directory is read from the end of the
\* stream; bad is BadZipFile. The cursor is left inside the directory.
ZipOpen(stream) ==
    LET b == stream.bytes
        wellFormed == /\ Len(b) >= 3
                      /\ StartsWith(b, PK_SIG)
                      /\ b[Len(b)] = "EOCD"
                      /\ \A i \in 3..(Len(b) - 1) : b[i] \in ZipEntryNames
    IN  [bad      |-> ~wellFormed,
         namelist |-> IF wellFormed THEN SubSeq(b, 3, Len(b) - 1) ELSE <<>>,
         stream   |-> Seek(stream, Len(b))]

\* name.startswith('ppt/')
UnderPpt(name) == StartsWith(Spell(name), << "p", "p", "t", "/" >>)

validate_pdf_signature(stream) ==
    LET start_pos == stream.pos
        header == Read(Seek(stream, 0), 5)
    IN  [ok |-> StartsWith(header.data, PDF_SIG),
         stream |-> Seek(header.stream, start_pos)]

validate_docx_signature(stream) ==
    LET start_pos == stream.pos
        header == Read(Seek(stream, 0), 2)
        zip == ZipOpen(Seek(header.stream, 0))
    IN  IF ~StartsWith(header.data, PK_SIG)
        THEN [ok |-> FALSE, stream |-> Seek(header.stream, start_pos)]
        ELSE IF zip.bad
        THEN [ok |-> FALSE, stream |-> Seek(zip.stream, start_pos)]
        ELSE IF "word/document.xml" \notin Range(zip.namelist)
        THEN [ok |-> FALSE, stream |-> Seek(zip.stream, start_pos)]
        ELSE [ok |-> TRUE, stream |-> Seek(zip.stream, start_pos)]

validate_excel_signature(stream) ==
    LET start_pos == stream.pos
        header == Read(Seek(stream, 0), 8)
    IN  [ok |-> StartsWith(header.data, PK_SIG) \/ StartsWith(header.data, XLS_SIG),
         stream |-> Seek(header.stream, start_pos)]

\* Variant: the return after a ppt/ entry is found skips seek(start_pos).
validate_pptx_signature_CursorLeft(stream) ==
    LET start_pos == stream.pos
        header == Read(Seek(stream, 0), 2)
        zip == ZipOpen(Seek(header.stream, 0))
    IN  IF ~StartsWith(header.data, PK_SIG)
        THEN [ok |-> FALSE, stream |-> Seek(header.stream, start_pos)]
        ELSE IF zip.bad
        THEN [ok |-> FALSE, stream |-> Seek(zip.stream, start_pos)]
        ELSE IF \E i \in 1..Len(zip.namelist) : UnderPpt(zip.namelist[i])
        THEN [ok |-> TRUE, stream |-> zip.stream]
        ELSE [ok |-> FALSE, stream |-> Seek(zip.stream, start_pos)]

validate_pptx_signature(stream) ==
    LET start_pos == stream.pos
        header == Read(Seek(stream, 0), 2)
        zip == ZipOpen(Seek(header.stream, 0))
    IN  IF ~StartsWith(header.data, PK_SIG)
        THEN [ok |-> FALSE, stream |-> Seek(header.stream, start_pos)]
        ELSE IF zip.bad
        THEN [ok |-> FALSE, stream |-> Seek(zip.stream, start_pos)]
        ELSE IF \E i \in 1..Len(zip.namelist) : UnderPpt(zip.namelist[i])
        THEN [ok |-> TRUE, stream |-> Seek(zip.stream, start_pos)]
        ELSE [ok |-> FALSE, stream |-> Seek(zip.stream, start_pos)]

\* sample.decode('utf-8') of the first 1024 bytes succeeds
validate_text_signature(stream) ==
    LET start_pos == stream.pos
        sample == Read(Seek(stream, 0), 1024)
    IN  [ok |-> \A i \in 1..Len(sample.data) : sample.data[i] \notin NonUtf8,
         stream |-> Seek(sample.stream, start_pos)]

validate_image_signature(stream) ==
    LET start_pos == stream.pos
        header == Read(Seek(stream, 0), 10)
    IN  [ok |-> StartsWith(header.data, PNG_SIG) \/ StartsWith(header.data, JPEG_SIG),
         stream |-> Seek(header.stream, start_pos)]

\* os.path.splitext(p): the extension starts at the last dot of the last
\* path component, leading dots of the component not counted.
LastIndex(chars, ch) ==
    IF \E i \in 1..Len(chars) : chars[i] = ch
    THEN CHOOSE i \in 1..Len(chars) :
            /\ chars[i] = ch
            /\ \A j \in (i + 1)..Len(chars) : chars[j] # ch
    ELSE 0

SplitExt(chars) ==
    LET sep == LastIndex(chars, "/")
        dot == LastIndex(chars, ".")
    IN  IF dot > sep /\ \E k \in (sep + 1)..(dot - 1) : chars[k] # "."
        THEN << SubSeq(chars, 1, dot - 1), SubSeq(chars, dot, Len(chars)) >>
        ELSE << chars, <<>> >>

\* os.path.splitext(filename)[1].lower()
LowerExt(filename) ==
    LET ext == SplitExt(Spell(filename))[2]
    IN  Join([i \in 1..Len(ext) |-> LowerChar(ext[i])])

NoKind == "None"

\* detect_file_type(stream, filename): (type, mime type, extension) and the
\* stream as the validators leave it.
detect_file_type(stream, filename) ==
    LET pdf   == validate_pdf_signature(stream)
        docx  == validate_docx_signature(pdf.stream)
        excel == validate_excel_signature(docx.stream)
        pptx  == validate_pptx_signature(excel.stream)
        image == validate_image_signature(pptx.stream)
        text  == validate_text_signature(image.stream)
        ext   == LowerExt(filename)
    IN  IF pdf.ok
        THEN [type |-> "pdf", mime |-> "application/pdf", extension |-> ".pdf",
              stream |-> pdf.stream]
        ELSE IF docx.ok
        THEN [type |-> "docx",
              mime |-> "application/vnd.openxmlformats-officedocument.wordprocessingml.document",
              extension |-> ".docx", stream |-> docx.stream]
        ELSE IF excel.ok
        THEN IF ext = ".xls"
             THEN [type |-> "xls", mime |-> "application/vnd.ms-excel",
                   extension |-> ".xls", stream |-> excel.stream]
             ELSE [type |-> "xlsx",
                   mime |-> "application/vnd.openxmlformats-officedocument.spreadsheetml.sheet",
                   extension |-> ".xlsx", stream |-> excel.stream]
        ELSE IF pptx.ok
        THEN [type |-> "pptx",
              mime |-> "application/vnd.openxmlformats-officedocument.presentationml.presentation",
              extension |-> ".pptx", stream |-> pptx.stream]
        ELSE IF image.ok
        THEN IF ext = ".png"
             THEN [type |-> "png", mime |-> "image/png", extension |-> ".png",
                   stream |-> image.stream]
             ELSE [type |-> "jpeg", mime |-> "image/jpeg", extension |-> ".jpg",
                   stream |-> image.stream]
        ELSE IF text.ok
        THEN IF ext = ".csv"
             THEN [type |-> "csv", mime |-> "text/csv", extension |-> ".csv",
                   stream |-> text.stream]
             ELSE [type |-> "txt", mime |-> "text/plain", extension |-> ".txt",
                   stream |-> text.stream]
        ELSE [type |-> NoKind, mime |-> NoKind, extension |-> NoKind,
              stream |-> text.stream]

\* ------------------------------------------------------------- ScanResult

CLEAN     == "clean"
MALICIOUS == "malicious"
PENDING   == "pending"
ERROR     == "error"
NO_SCAN   == "no_scan_result"

\* Values of the blob tag "Malware Scanning scan result"; "" is the absent tag.
DefenderValues == {"", "No scan result", "No threats found", "Malicious", "Unknown"}

\* The lower-cased substring tests of check_azure_defender_scan_result.
ClassifyDefender(raw) ==
    CASE raw = "Malicious"        -> MALICIOUS
      [] raw = "No threats found" -> CLEAN
      [] raw = "No scan result"   -> NO_SCAN
      [] raw = ""                 -> NO_SCAN
      [] OTHER                    -> NO_SCAN

\* get_blob_tags() either returns the tags or raises (ok = FALSE).
check_azure_defender_scan_result(tags, ok) ==
    IF ok THEN ClassifyDefender(tags.defender) ELSE ERROR

\* ------------------------------------------------------------ the archive

\* hashlib.sha256 as an ideal (collision-free) digest of its input
Sha256(bytes) == <<"sha256", bytes>>

\* while True: chunk = stream.read(65536) ... until the chunk is empty
RECURSIVE ReadChunks(_, _)
ReadChunks(stream, acc) ==
    LET chunk == Read(stream, 65536)
    IN  IF chunk.data = <<>> THEN [data |-> acc, stream |-> chunk.stream]
        ELSE ReadChunks(chunk.stream, acc \o chunk.data)

\* compute_sha256(stream): the digest of the whole stream, and the stream
\* as the function leaves it.
compute_sha256(stream) ==
    LET start_pos == stream.pos
        all == ReadChunks(Seek(stream, 0), <<>>)
    IN  [digest |-> Sha256(all.data), stream |-> Seek(all.stream, start_pos)]

RECURSIVE SumSizes(_)
SumSizes(entries) ==
    IF entries = <<>> THEN 0
    ELSE entries[1].size + SumSizes(Tail(entries))

\* The payload of the file in slot k of a request whose content variant is c.
PayloadBytes == << "a", "b", "c" >>
Payload(c, k) == [i \in 1..(1 + ((c + k) % 2)) |-> PayloadBytes[((c + k + i) % 3) + 1]]

PdfBytes(c, k) == PDF_SIG \o Payload(c, k)
DocxBytes == PK_SIG \o << "word/document.xml", "EOCD" >>
XlsxBytes == PK_SIG \o << "xl/workbook.xml", "EOCD" >>

\* One part of request.files: field name, client filename, stream.
Upload(field, filename, bytes) ==
    [field |-> field, filename |-> filename, stream |-> [bytes |-> bytes, pos |-> 0]]

\* The files of the request whose content variant is c.
UploadsOf(h, c) ==
    CASE h = "upload" ->
           << Upload("architectureDiagram", "r.pdf", PdfBytes(c, 1)),
              Upload("charter", "c.docx", DocxBytes) >>
      [] h = "submit" ->
           << Upload("doc", "r.pdf", PdfBytes(c, 1)) >>
      [] h = "rfpi" ->
           << Upload("rfpiProposal", "r.pdf", PdfBytes(c, 1)),
              Upload("financialDocuments", "r.pdf", PdfBytes(c, 2)),
              Upload("additionalDocuments", "r.pdf", PdfBytes(c, 3)),
              Upload("budgetJustification", "a.xlsx", XlsxBytes) >>

UPLOAD_FORM == "upload-project-artifacts"
GENERIC_FORM == "generic-form"

Fields(uploads) == { uploads[i].field : i \in 1..Len(uploads) }

\* request.files[field]
FileIn(uploads, field) ==
    uploads[CHOOSE i \in 1..Len(uploads) : uploads[i].field = field]

\* stream.seek(0); stream.read()
ReadAll(stream) == Read(Seek(stream, 0), Len(stream.bytes)).data

\* {'documentType': ..., 'sourceForm': ..., **effective_tags}
EffectiveTags(doc_type, form, effective_tags) ==
    DictMerge(<< << "documentType", doc_type >>, << "sourceForm", form >> >>, effective_tags)

\* /upload: the two entries of the manifest's files list, with their bytes.
UploadFiles(uploads, effective_tags) ==
    LET pdf_file  == FileIn(uploads, "architectureDiagram")
        docx_file == FileIn(uploads, "charter")
    IN  << [field |-> "architectureDiagram", documentType |-> "architecture-diagram",
            originalFileName |-> secure_filename(pdf_file.filename),
            path |-> "files/architecture-diagram.pdf",
            content |-> ReadAll(pdf_file.stream),
            effectiveTags |-> EffectiveTags("architecture-diagram", UPLOAD_FORM, effective_tags)],
           [field |-> "charter", documentType |-> "charter",
            originalFileName |-> secure_filename(docx_file.filename),
            path |-> "files/charter.docx",
            content |-> ReadAll(docx_file.stream),
            effectiveTags |-> EffectiveTags("charter", UPLOAD_FORM, effective_tags)] >>

\* /submit: files_data, one entry per uploaded part that has a filename and
\* a recognized signature, in the order of request.files.
RECURSIVE SubmitFiles(_, _, _)
SubmitFiles(uploads, form_id, effective_tags) ==
    IF uploads = <<>> THEN <<>>
    ELSE LET file_obj  == Head(uploads)
             detected  == detect_file_type(file_obj.stream, file_obj.filename)
             base_name == Join(SplitExt(SecureChars(Spell(file_obj.filename)))[1])
             stored_name == secure_filename(file_obj.field) \o "_" \o base_name
                               \o detected.extension
             rest == SubmitFiles(Tail(uploads), form_id, effective_tags)
         IN  IF file_obj.filename = "" \/ detected.type = NoKind
             THEN rest
             ELSE << [field |-> file_obj.field,
                      documentType |-> secure_filename(file_obj.field),
                      originalFileName |-> secure_filename(file_obj.filename),
                      path |-> "files/" \o stored_name,
                      content |-> ReadAll(detected.stream),
                      effectiveTags |-> EffectiveTags(secure_filename(file_obj.field),
                                                      form_id, effective_tags)] >> \o rest

\* for field_name in request.files: file_obj = request.files[field_name]
\* request.files is a MultiDict: iterating it gives every field name once,
\* and indexing it gives the first part sent under that name.
RequestFiles(uploads) ==
    SelectSeq([i \in 1..Len(uploads) |->
                  [part |-> uploads[i],
                   first |-> \A j \in 1..(i - 1) : uploads[j].field # uploads[i].field]],
              LAMBDA e : e.first)

\* /submit: file_errors, one entry per part of the loop that has a filename
\* and no recognized signature.
RECURSIVE FileErrors(_)
FileErrors(parts) ==
    IF parts = <<>> THEN <<>>
    ELSE LET file_obj == Head(parts).part
             rest     == FileErrors(Tail(parts))
         IN  IF /\ file_obj.filename # ""
                /\ detect_file_type(file_obj.stream, file_obj.filename).type = NoKind
             THEN << [field |-> file_obj.field, filename |-> file_obj.filename,
                      message |-> "Unsupported file type or invalid file signature"] >>
                  \o rest
             ELSE rest

\* The parts the /submit loop visits.
LoopParts(uploads) ==
    [i \in 1..Len(RequestFiles(uploads)) |-> RequestFiles(uploads)[i].part]

\* The "files" list of a 201 answer of /submit.
ResponseFiles(files) ==
    [i \in 1..Len(files) |->
        [field |-> files[i].field, originalFileName |-> files[i].originalFileName,
         sizeBytes |-> Len(files[i].content), sha256 |-> Sha256(files[i].content)]]

\* os.path.splitext(file.filename)[1]
Ext(filename) == Join(SplitExt(Spell(filename))[2])

RfpiRequired ==
    << << "rfpiProposal", "rfpi-proposal" >>,
       << "financialDocuments", "financial-documents" >>,
       << "additionalDocuments", "additional-documents" >>,
       << "budgetJustification", "budget-justification" >> >>

RfpiOptional ==
    << << "optionalBudget1", "optional-budget-tier1" >>,
       << "optionalBudget2", "optional-budget-tier2" >> >>

\* /rfpi-submit: one files_data entry; the stored name of a budget file
\* ends in the extension of the client's filename.
RfpiFile(file_obj, doc_type) ==
    [field |-> file_obj.field, documentType |-> doc_type,
     originalFileName |-> secure_filename(file_obj.filename),
     path |-> "files/" \o doc_type \o
                (IF doc_type \in {"budget-justification", "optional-budget-tier1",
                                  "optional-budget-tier2"}
                 THEN Ext(file_obj.filename) ELSE ".pdf"),
     content |-> ReadAll(file_obj.stream),
     effectiveTags |-> <<>>]

RECURSIVE RfpiOptionalFiles(_, _)
RfpiOptionalFiles(uploads, roles) ==
    IF roles = <<>> THEN <<>>
    ELSE LET role == Head(roles)
             rest == RfpiOptionalFiles(uploads, Tail(roles))
         IN  IF /\ role[1] \in Fields(uploads)
                /\ FileIn(uploads, role[1]).filename # ""
                /\ validate_excel_signature(FileIn(uploads, role[1]).stream).ok
             THEN << RfpiFile(FileIn(uploads, role[1]), role[2]) >> \o rest
             ELSE rest

RfpiFiles(uploads) ==
    [i \in 1..Len(RfpiRequired) |->
        RfpiFile(FileIn(uploads, RfpiRequired[i][1]), RfpiRequired[i][2])]
    \o RfpiOptionalFiles(uploads, RfpiOptional)

\* The files a handler packs: File Record fields, in-archive path, raw bytes.
FilesData(h, uploads, effective_tags) ==
    CASE h = "upload" -> UploadFiles(uploads, effective_tags)
      [] h = "submit" -> SubmitFiles(LoopParts(uploads), GENERIC_FORM, effective_tags)
      [] h = "rfpi"   -> RfpiFiles(uploads)

\* The presence and signature checks that precede packing.
FilesAccepted(h, uploads) ==
    CASE h = "upload" ->
           /\ {"architectureDiagram", "charter"} \subseteq Fields(uploads)
           /\ validate_pdf_signature(FileIn(uploads, "architectureDiagram").stream).ok
           /\ validate_docx_signature(FileIn(uploads, "charter").stream).ok
      [] h = "submit" ->
           /\ uploads # <<>>
           /\ SubmitFiles(LoopParts(uploads), GENERIC_FORM, <<>>) # <<>>
      [] h = "rfpi" ->
           /\ \A i \in 1..Len(RfpiRequired) :
                /\ RfpiRequired[i][1] \in Fields(uploads)
                /\ FileIn(uploads, RfpiRequired[i][1]).filename # ""
           /\ \A i \in 1..3 :
                validate_pdf_signature(FileIn(uploads, RfpiRequired[i][1]).stream).ok
           /\ validate_excel_signature(FileIn(uploads, "budgetJustification").stream).ok

\* The files each handler packs for the request whose content variant is c.
FilesOf(h, c) == FilesData(h, UploadsOf(h, c), <<>>)

\* One File Record of the manifest (content omitted).
FileRecord(f) ==
    [field |-> f.field, documentType |-> f.documentType,
     originalFileName |-> f.originalFileName, storedPathInZip |-> f.path,
     sizeBytes |-> Len(f.content), sha256 |-> Sha256(f.content),
     effectiveTags |-> f.effectiveTags]

\* The manifest dict; zip = <<>> is the manifest without its "zip" key.
Manifest(id, t, files, tags, zip) ==
    [submissionId |-> id, submittedAt |-> t, tags |-> tags, scanStatus |-> "pending",
     files |-> [i \in 1..Len(files) |-> FileRecord(files[i])],
     zip |-> zip]

\* len(json.dumps(manifest)): the zip block adds two fields.
ManifestSize(m) == 4 + Len(m.tags) + Len(m.files) + (IF m.zip = <<>> THEN 0 ELSE 2)

\* zipfile.ZipFile(...).writestr(path, content) for every file, then manifest.json
BuildZip(files, manifest) ==
    [i \in 1..(Len(files) + 1) |->
        IF i <= Len(files)
        THEN [name |-> files[i].path, data |-> files[i].content,
              size |-> Len(files[i].content)]
        ELSE [name |-> "manifest.json", data |-> manifest,
              size |-> ManifestSize(manifest)]]

\* zip_buffer.seek(0, 2); zip_buffer.tell()
ZipSize(zip) == SumSizes(zip)

\* Mutant: tell() is taken without the seek to the end of the buffer.
ZipBlock_SizeAtStart(pass1) == << Sha256(pass1), 0 >>

\* The zip block attached to the manifest after Pass 1.
ZipBlock(pass1) == << Sha256(pass1), ZipSize(pass1) >>

\* The archive a handler persists: Pass 1, digest and size, Pass 2.
BuildArchive(id, t, files, tags) ==
    LET manifest1 == Manifest(id, t, files, tags, <<>>)
        pass1     == BuildZip(files, manifest1)
        manifest2 == Manifest(id, t, files, tags, ZipBlock(pass1))
    IN  [zip_buffer |-> BuildZip(files, manifest2),
         zip_hash   |-> Sha256(pass1),
         zip_size   |-> ZipSize(pass1)]

\* ZipFile.read(name): the data of the last entry written under that name
ZipRead(zip, name) ==
    zip[CHOOSE i \in 1..Len(zip) :
            /\ zip[i].name = name
            /\ \A j \in (i + 1)..Len(zip) : zip[j].name # name].data

\* DocumentProcessor.extract_zip: filename -> bytes for every entry
extract_zip(zip_content) ==
    [name \in { zip_content[i].name : i \in 1..Len(zip_content) } |->
        ZipRead(zip_content, name)]

\* ----------------------------------------------------------- path naming

Prefix(h) ==
    CASE h = "upload" -> "uploads"
      [] h = "submit" -> "submissions"
      [] h = "rfpi"   -> "rfpi-submissions"

LocalPrefix(h) ==
    CASE h = "upload" -> "upload"
      [] h = "submit" -> "submission"
      [] h = "rfpi"   -> "rfpi"

\* A blob path that leaves the submission identifier out: every archive of
\* one handler and one day would share it.
BlobPath_NoId(h, t, id) == << Prefix(h), Day(t), 1 >>

\* blob_path = f"{prefix}/{now_et.strftime('%Y/%m/%d')}/{submission_id}.zip"
BlobPath(h, t, id) == << Prefix(h), Day(t), id >>

\* zip_name = f"{prefix}_{now_et.strftime('%Y-%m-%dT%H-%M-%S')}_{submission_id}.zip"
ZipName(h, t, id) == << LocalPrefix(h), t, id >>

\* f"{time.strftime('%Y/%m/%d')}/quarantined_{source_blob_name.split('/')[-1]}"
QuarantineName(t, blob_path) == << Day(t), blob_path[3] >>

\* Every blob path, quarantine name and local file name a request can use.
BlobPaths       == { BlobPath(h, t, id) : h \in Handlers, t \in Times, id \in Ids }
QuarantineNames == { QuarantineName(t, p) : t \in Times, p \in BlobPaths }
ZipNames        == { ZipName(h, t, id) : h \in Handlers, t \in Times, id \in Ids }

\* ------------------------------------------------------------------ state

VARIABLES
    azureConfigured,  \* AZURE_STORAGE_ACCOUNT_URL is set
    pc,               \* position of the handler serving the current request
    req,              \* the handler's locals
    wait,             \* locals of the polling loop in progress
    container,        \* AZURE_CONTAINER_NAME: blob path -> blob
    quarantine,       \* QUARANTINE_CONTAINER: blob name -> blob
    localdir,         \* LOCAL_STORAGE_FALLBACK: file name -> bytes
    response,         \* the response of the current request, once produced
    hist,             \* what the current request has done so far
    served,           \* requests started
    input,            \* arguments of a helper function called on its own
    output            \* what that call returned

vars == << azureConfigured, pc, req, wait, container, quarantine, localdir,
           response, hist, served, input, output >>

\* The variables of the handlers and of the storage services.
handlerVars == << azureConfigured, pc, req, wait, container, quarantine,
                  localdir, response, hist, served >>

NoReq ==
    [handler |-> "none", user_tags |-> NoTags, tags |-> <<>>,
     submission_id |-> 0, now_et |-> 0, files |-> <<>>,
     zip_buffer |-> <<>>, zip_hash |-> <<>>, zip_size |-> 0,
     blob_path |-> <<>>, zip_name |-> <<>>,
     upload_success |-> FALSE, storage_location |-> "local",
     scan_status |-> "none", scan_timeout |-> FALSE, manifest_scan |-> "pending",
     quarantine_name |-> <<>>, quarantined |-> FALSE, tags_read |-> <<>>,
     recipient |-> FALSE, email_sent |-> FALSE,
     uploads |-> <<>>, file_errors |-> <<>>]
NoWait     == [attempts |-> 0, elapsed |-> 0, sleeps |-> 0, slept |-> 0,
               unresolved |-> 0, lat |-> 0]
\* The locals of a polling loop at its start; lat is the duration of one
\* round trip to the storage service during this call.
StartWait(lat) == [NoWait EXCEPT !.lat = lat]
NoResponse ==
    [code |-> 0, error |-> "", details |-> <<>>, status |-> "", scanStatus |-> "",
     storageMode |-> "", quarantined |-> FALSE, zipSha256 |-> <<>>,
     emailSent |-> FALSE, fileDetails |-> <<>>, warnings |-> <<>>, files |-> <<>>]
NoHist     == [quarantineCalled |-> FALSE, copyStarted |-> FALSE, sawSuccess |-> FALSE,
               deletedOriginal |-> FALSE, wroteAzure |-> FALSE, wroteLocal |-> FALSE,
               azureFailed |-> FALSE, refused |-> FALSE, updated |-> FALSE,
               emailTried |-> FALSE]

Put(f, k, v) == [x \in (DOMAIN f) \cup {k} |-> IF x = k THEN v ELSE f[x]]
Remove(f, k) == [x \in (DOMAIN f) \ {k} |-> f[x]]
Empty        == [x \in {} |-> 0]

NoInput  == [fn |-> "none"]
NoOutput == [done |-> FALSE]

Init ==
    /\ input = NoInput
    /\ output = NoOutput
    /\ azureConfigured \in BOOLEAN
    /\ pc = "idle"
    /\ req = NoReq
    /\ wait = NoWait
    /\ container = Empty
    /\ quarantine = Empty
    /\ localdir = Empty
    /\ response = NoResponse
    /\ hist = NoHist
    /\ served = 0

\* --------------------------------------------------- handler: build archive

\* Lines up to "5. Storage" of a handler whose checks pass: the tags are
\* validated, the files are read, the submission id and timestamp are
\* generated, the two-pass archive is built and the storage names are derived.
Passes(h, c, tags) ==
    /\ h = "rfpi" => tags = NoTags
    /\ CheckRequestTags(h, tags).outcome = "ok"
    /\ FilesAccepted(h, UploadsOf(h, c))

\* The handler's locals when it reaches "5. Storage".
RequestLocals(h, id, t, tags, effective_tags, files, built) ==
    [NoReq EXCEPT
        !.handler = h, !.user_tags = tags, !.tags = effective_tags,
        !.submission_id = id, !.now_et = t,
        !.files = files,
        !.zip_buffer = built.zip_buffer,
        !.zip_hash = built.zip_hash,
        !.zip_size = built.zip_size,
        !.blob_path = BlobPath(h, t, id),
        !.zip_name = ZipName(h, t, id)]

\* "4. Create Zip & Manifest" onwards, from files_data
PackRequest(h, id, t, tags, effective_tags, files) ==
    RequestLocals(h, id, t, tags, effective_tags, files,
                  BuildArchive(id, t, files, effective_tags))

\* File processing onwards, from the effective tags
ReadFiles(h, id, t, c, tags, effective_tags) ==
    PackRequest(h, id, t, tags, effective_tags,
                FilesData(h, UploadsOf(h, c), effective_tags))

\* The whole of the handler up to "5. Storage", for a request that passes.
Built(h, id, t, c, tags) ==
    ReadFiles(h, id, t, c, tags, handle_reserved_tags(CheckRequestTags(h, tags).tags))

\* Built, worked out once for every request that passes the checks.
BuiltRequests ==
    { [content |-> k[4], req |-> Built(k[1], k[2], k[3], k[4], k[5])] :
        k \in { k \in Handlers \X Ids \X Times \X Contents \X RequestTags :
                    Passes(k[1], k[4], k[5]) } }

Accept(h, id, t, c, mail, tags) ==
    /\ mail => h = "submit"
    /\ \E b \in BuiltRequests :
          /\ b.content = c
          /\ b.req.handler = h
          /\ b.req.submission_id = id
          /\ b.req.now_et = t
          /\ b.req.user_tags = tags
          /\ req' = [b.req EXCEPT !.recipient = mail]
    /\ pc' = "store"
    /\ wait' = NoWait
    /\ response' = NoResponse
    /\ hist' = NoHist
    /\ served' = served + 1
    /\ UNCHANGED << azureConfigured, container, quarantine, localdir >>
    /\ UNCHANGED << input, output >>

\* The first request after start-up.
Receive(h, id, t, c, mail, tags) ==
    /\ pc = "idle"
    /\ Accept(h, id, t, c, mail, tags)

\* A further request, served after the previous one was answered.
ReceiveNext(h, id, t, c, mail, tags) ==
    /\ pc = "done"
    /\ served < MaxPuts
    /\ Accept(h, id, t, c, mail, tags)

\* /upload or /submit with a tag set its checks refuse: 400 ValidationFailed
\* is returned before any file is read.
RejectTags(h, tags) ==
    /\ pc = "idle"
    /\ h \in {"upload", "submit"}
    /\ CheckRequestTags(h, tags).outcome \in {"missing", "no_project", "invalid"}
    /\ req' = [NoReq EXCEPT !.handler = h, !.user_tags = tags]
    /\ response' = [NoResponse EXCEPT !.code = 400, !.error = "ValidationFailed",
                                      !.details = TagsMessage(CheckRequestTags(h, tags))]
    /\ pc' = "done"
    /\ wait' = NoWait
    /\ hist' = NoHist
    /\ served' = served + 1
    /\ UNCHANGED << azureConfigured, container, quarantine, localdir >>
    /\ UNCHANGED << input, output >>

\* re.match raises TypeError on a tag value that is no str; the handler's
\* outermost except clause answers 500 UploadFailed.
TagsRaise(h, tags) ==
    /\ pc = "idle"
    /\ h \in {"upload", "submit"}
    /\ CheckRequestTags(h, tags).outcome = "TypeError"
    /\ req' = [NoReq EXCEPT !.handler = h, !.user_tags = tags]
    /\ response' = [NoResponse EXCEPT !.code = 500, !.error = "UploadFailed",
                                      !.details = << "TypeError" >>]
    /\ pc' = "done"
    /\ wait' = NoWait
    /\ hist' = NoHist
    /\ served' = served + 1
    /\ UNCHANGED << azureConfigured, container, quarantine, localdir >>
    /\ UNCHANGED << input, output >>

\* ------------------------------------------------ handler: durable storage

\* Mutant: without durable storage the handler goes on to the scan stage.
SkipAzure_Scans ==
    /\ pc = "store"
    /\ ~azureConfigured
    /\ pc' = "wait"
    /\ UNCHANGED << azureConfigured, req, wait, container, quarantine, localdir,
                    response, hist, served >>
    /\ UNCHANGED << input, output >>

\* if AZURE_STORAGE_ACCOUNT_URL: is false, the try block is skipped.
SkipAzure ==
    /\ pc = "store"
    /\ ~azureConfigured
    /\ pc' = "local"
    /\ UNCHANGED << azureConfigured, req, wait, container, quarantine, localdir,
                    response, hist, served >>
    /\ UNCHANGED << input, output >>

\* The blob written by upload_blob(zip_buffer, metadata=metadata, tags=tags_for_index).
\* metadata[f"tag_{key}"] = str(value)[:256] for every effective tag
RECURSIVE WithTagMetadata(_, _)
WithTagMetadata(metadata, effective_tags) ==
    IF effective_tags = <<>> THEN metadata
    ELSE WithTagMetadata(DictPut(metadata, "tag_" \o effective_tags[1][1],
                                 effective_tags[1][2]),
                         Tail(effective_tags))

\* The metadata dict a handler passes to upload_blob.
Metadata(r) ==
    CASE r.handler = "upload" ->
           << << "submissionId", r.submission_id >>, << "sourceForm", UPLOAD_FORM >>,
              << "scanStatus", "pending" >>, << "zipSha256", r.zip_hash >>,
              << "submittedAt", r.now_et >>,
              << "docTypes", "architecture-diagram,charter" >> >>
      [] r.handler = "submit" ->
           WithTagMetadata(
              << << "submissionId", r.submission_id >>, << "sourceForm", GENERIC_FORM >>,
                 << "scanStatus", "pending" >>, << "zipSha256", r.zip_hash >>,
                 << "submittedAt", r.now_et >>,
                 << "fileCount", StrOfNat(Len(r.files)) >> >>,
              r.tags)
      [] r.handler = "rfpi" ->
           << << "submissionId", r.submission_id >>,
              << "formType", "usabc-rfpi-proposal" >>,
              << "scanStatus", "pending" >>, << "zipSha256", r.zip_hash >>,
              << "submittedAt", r.now_et >> >>

\* for key, value in effective_tags.items(): up to 10 index tags in all
RECURSIVE WithUserIndexTags(_, _, _)
WithUserIndexTags(index, effective_tags, index_tag_count) ==
    IF effective_tags = <<>> \/ index_tag_count >= 10 THEN index
    ELSE WithUserIndexTags(
            DictPut(index, effective_tags[1][1],
                    normalize_tag_for_index(effective_tags[1][2])),
            Tail(effective_tags), index_tag_count + 1)

\* One of /upload's optional index tags, when the effective tags have it.
WithOptional(index, effective_tags, key) ==
    IF key \in DictKeys(effective_tags)
    THEN DictPut(index, key, normalize_tag_for_index(DictGet(effective_tags, key)))
    ELSE index

\* The tags_for_index dict a handler passes to upload_blob.
TagsForIndex(r) ==
    CASE r.handler = "upload" ->
           WithOptional(
              WithOptional(
                 << << "project",
                       normalize_tag_for_index(IF "project" \in DictKeys(r.tags)
                                               THEN DictGet(r.tags, "project")
                                               ELSE "unknown") >>,
                    << "scanStatus", "pending" >>,
                    << "sourceForm", UPLOAD_FORM >> >>,
                 r.tags, "environment"),
              r.tags, "domain")
      [] r.handler = "submit" ->
           WithUserIndexTags(
              << << "sourceForm", normalize_tag_for_index(GENERIC_FORM) >>,
                 << "scanStatus", "pending" >>,
                 << "fileCount", StrOfNat(Len(r.files)) >> >>,
              r.tags, 3)
      [] r.handler = "rfpi" ->
           << << "formType", "usabc-rfpi-proposal" >>,
              << "scanStatus", "pending" >> >>

NewBlob(r) ==
    LET metadata == Metadata(r)
        tags_for_index == TagsForIndex(r)
    IN  [data |-> r.zip_buffer,
         metadata |-> [scanStatus |-> DictGet(metadata, "scanStatus"),
                       zipSha256 |-> DictGet(metadata, "zipSha256"),
                       submissionId |-> DictGet(metadata, "submissionId"),
                       uploaded |-> metadata],
         tags |-> [scanStatus |-> DictGet(tags_for_index, "scanStatus"),
                   defender |-> "",
                   uploaded |-> tags_for_index]]

\* upload_blob is called without overwrite=True: the service refuses to
\* replace an existing blob (ResourceExistsError).
UploadRefused(store, path) == path \in DOMAIN store

\* Mutant: the except clause of the storage block answers without the
\* local fallback being taken.
AzureUploadFails_NoFallback(step) ==
    /\ pc = "store"
    /\ azureConfigured
    /\ step \in {"client", "container", "upload_blob"}
    /\ pc' = "stored"
    /\ hist' = [hist EXCEPT !.azureFailed = TRUE]
    /\ UNCHANGED << azureConfigured, req, wait, container, quarantine, localdir,
                    response, served >>
    /\ UNCHANGED << input, output >>

\* A step of the try block up to and including upload_blob raises; the
\* handler's except clause logs it and the local fallback follows.
AzureUploadFails(step) ==
    /\ pc = "store"
    /\ azureConfigured
    /\ step \in {"client", "container", "upload_blob"}
    /\ pc' = "local"
    /\ hist' = [hist EXCEPT !.azureFailed = TRUE]
    /\ UNCHANGED << azureConfigured, req, wait, container, quarantine, localdir,
                    response, served >>
    /\ UNCHANGED << input, output >>

\* upload_blob raises because a blob already exists at blob_path.
AzureUploadExists ==
    /\ pc = "store"
    /\ azureConfigured
    /\ UploadRefused(container, req.blob_path)
    /\ pc' = "local"
    /\ hist' = [hist EXCEPT !.azureFailed = TRUE, !.refused = TRUE]
    /\ UNCHANGED << azureConfigured, req, wait, container, quarantine, localdir,
                    response, served >>
    /\ UNCHANGED << input, output >>

AzureUpload(lat) ==
    /\ pc = "store"
    /\ azureConfigured
    /\ lat \in Latency
    /\ ~UploadRefused(container, req.blob_path)
    /\ container' = Put(container, req.blob_path, NewBlob(req))
    /\ req' = [req EXCEPT !.upload_success = TRUE, !.storage_location = "azure"]
    /\ hist' = [hist EXCEPT !.wroteAzure = TRUE]
    /\ wait' = StartWait(lat)
    /\ pc' = "wait"
    /\ UNCHANGED << azureConfigured, quarantine, localdir, response, served >>
    /\ UNCHANGED << input, output >>

\* -------------------------------------------------- wait_for_scan_result

\* Mutant: the attempt count is compared with the interval instead of the
\* quotient timeout / interval.
AttemptsExhausted_WrongOperand(attempts) == attempts >= SCAN_POLL_INTERVAL

\* if attempts >= (timeout / SCAN_POLL_INTERVAL): (true division, interval > 0)
AttemptsExhausted(attempts) == attempts * SCAN_POLL_INTERVAL >= SCAN_TIMEOUT

\* Mutant: the sleep comes before the test for a definitive result.
WaitIteration_SleepsFirst(w, status) ==
    LET n == w.attempts + 1
        slept == [w EXCEPT !.attempts = n,
                           !.sleeps = w.sleeps + 1,
                           !.slept = w.slept + SCAN_POLL_INTERVAL,
                           !.elapsed = w.elapsed + w.lat + SCAN_POLL_INTERVAL]
    IN  IF status \in {CLEAN, MALICIOUS}
        THEN [done |-> TRUE, status |-> status, timeout |-> FALSE, w |-> slept]
        ELSE IF AttemptsExhausted(n)
        THEN [done |-> TRUE, status |-> PENDING, timeout |-> TRUE,
              w |-> [slept EXCEPT !.unresolved = w.unresolved + 1]]
        ELSE [done |-> FALSE, status |-> status, timeout |-> FALSE,
              w |-> [slept EXCEPT !.unresolved = w.unresolved + 1]]

\* One pass through the body of the while loop, entered with the loop
\* condition true: the poll (taking lat seconds) and what follows it.
\* done: the function returns; otherwise it has slept and loops.
WaitIteration(w, status) ==
    LET n == w.attempts + 1
        polled == [w EXCEPT !.attempts = n, !.elapsed = w.elapsed + w.lat]
    IN  IF status \in {CLEAN, MALICIOUS}
        THEN [done |-> TRUE, status |-> status, timeout |-> FALSE, w |-> polled]
        ELSE IF AttemptsExhausted(n)
        THEN [done |-> TRUE, status |-> PENDING, timeout |-> TRUE,
              w |-> [polled EXCEPT !.unresolved = w.unresolved + 1]]
        ELSE [done |-> FALSE, status |-> status, timeout |-> FALSE,
              w |-> [polled EXCEPT !.unresolved = w.unresolved + 1,
                                   !.sleeps = w.sleeps + 1,
                                   !.slept = w.slept + SCAN_POLL_INTERVAL,
                                   !.elapsed = w.elapsed + w.lat + SCAN_POLL_INTERVAL]]

\* Mutant: the malicious branch is missing, the verdict falls into the else.
AfterScan_NoMaliciousBranch(status) == "update"

\* The handler's dispatch on scan_status after wait_for_scan_result returns.
AfterScan(status) ==
    IF status = MALICIOUS THEN "quarantine" ELSE "update"

\* while (time.time() - start_time) < timeout: one iteration.
WaitPoll(ok) ==
    /\ pc = "wait"
    /\ wait.elapsed < SCAN_TIMEOUT
    /\ ok \in BOOLEAN
    /\ LET present == req.blob_path \in DOMAIN container
           tags == IF present THEN container[req.blob_path].tags
                   ELSE [scanStatus |-> "", defender |-> ""]
           status == check_azure_defender_scan_result(tags, ok /\ present)
           it == WaitIteration(wait, status)
       IN  /\ wait' = it.w
           /\ IF it.done
              THEN /\ req' = [req EXCEPT !.scan_status = it.status,
                                         !.scan_timeout = it.timeout]
                   /\ pc' = "scanned"
              ELSE /\ UNCHANGED req
                   /\ pc' = "wait"
    /\ UNCHANGED << azureConfigured, container, quarantine, localdir, response,
                    hist, served >>
    /\ UNCHANGED << input, output >>

\* The loop condition is false: return ScanResult.PENDING, {"timeout": True}.
WaitExpired ==
    /\ pc = "wait"
    /\ wait.elapsed >= SCAN_TIMEOUT
    /\ req' = [req EXCEPT !.scan_status = PENDING, !.scan_timeout = TRUE]
    /\ pc' = "scanned"
    /\ UNCHANGED << azureConfigured, wait, container, quarantine, localdir,
                    response, hist, served >>
    /\ UNCHANGED << input, output >>

\* if scan_status == ScanResult.MALICIOUS: ... elif CLEAN: ... else: ...
Dispatch ==
    /\ pc = "scanned"
    /\ pc' = AfterScan(req.scan_status)
    /\ wait' = NoWait
    /\ UNCHANGED << azureConfigured, req, container, quarantine, localdir,
                    response, hist, served >>
    /\ UNCHANGED << input, output >>

\* Defender for Storage attaches or revises its verdict tag on a stored blob.
DefenderScan(path, v) ==
    /\ path \in DOMAIN container
    /\ v \in DefenderValues \ {""}
    /\ container[path].tags.defender \in {"", "No scan result"}
    /\ v # container[path].tags.defender
    /\ container' = [container EXCEPT ![path].tags.defender = v]
    /\ UNCHANGED << azureConfigured, pc, req, wait, quarantine, localdir,
                    response, hist, served >>
    /\ UNCHANGED << input, output >>

\* ------------------------------------------------------- quarantine_blob

\* The destination blob start_copy_from_url creates (or replaces).
NewCopy(source) ==
    [data |-> <<>>, copy |-> "pending", source |-> source,
     originalPath |-> <<>>, quarantinedReason |-> "", quarantined |-> FALSE]

\* What the copy-status loop does with one props.copy.status.
CopyPoll(status) ==
    IF status = "success" THEN "break"
    ELSE IF status \in {"failed", "aborted"} THEN "raise"
    ELSE "sleep"

\* Entry of quarantine_blob up to start_copy_from_url. An error of the
\* container check is logged and ignored; any other raises into the
\* function's except clause, which returns {"quarantined": False}.
QuarantineStart(t, ok, lat) ==
    /\ pc = "quarantine"
    /\ t \in Times
    /\ ok \in BOOLEAN
    /\ lat \in Latency
    /\ LET name == QuarantineName(t, req.blob_path)
           started == ok /\ req.blob_path \in DOMAIN container
       IN  IF started
           THEN /\ quarantine' = Put(quarantine, name, NewCopy(req.blob_path))
                /\ req' = [req EXCEPT !.quarantine_name = name]
                /\ hist' = [hist EXCEPT !.quarantineCalled = TRUE, !.copyStarted = TRUE]
                /\ wait' = StartWait(lat)
                /\ pc' = "copy_wait"
           ELSE /\ req' = [req EXCEPT !.quarantined = FALSE]
                /\ hist' = [hist EXCEPT !.quarantineCalled = TRUE]
                /\ pc' = "respond403"
                /\ UNCHANGED << quarantine, wait >>
    /\ UNCHANGED << azureConfigured, container, localdir, response, served >>
    /\ UNCHANGED << input, output >>

\* while (time.time() - copy_start) < copy_status_timeout: one iteration.
QuarantinePoll(ok) ==
    /\ pc = "copy_wait"
    /\ wait.elapsed < COPY_STATUS_TIMEOUT
    /\ ok \in BOOLEAN
    /\ LET status == quarantine[req.quarantine_name].copy
           todo == IF ok THEN CopyPoll(status) ELSE "raise"
       IN  CASE todo = "break" ->
                  /\ hist' = [hist EXCEPT !.sawSuccess = TRUE]
                  /\ wait' = [wait EXCEPT !.attempts = @ + 1, !.elapsed = @ + wait.lat]
                  /\ pc' = "copy_done"
                  /\ UNCHANGED req
             [] todo = "raise" ->
                  /\ req' = [req EXCEPT !.quarantined = FALSE]
                  /\ wait' = [wait EXCEPT !.attempts = @ + 1, !.elapsed = @ + wait.lat]
                  /\ pc' = "respond403"
                  /\ UNCHANGED hist
             [] todo = "sleep" ->
                  /\ wait' = [wait EXCEPT !.attempts = @ + 1, !.sleeps = @ + 1,
                                          !.slept = @ + COPY_POLL_SLEEP,
                                          !.elapsed = @ + wait.lat + COPY_POLL_SLEEP]
                  /\ pc' = "copy_wait"
                  /\ UNCHANGED << req, hist >>
    /\ UNCHANGED << azureConfigured, container, quarantine, localdir, response, served >>
    /\ UNCHANGED << input, output >>

\* The loop condition is false: the loop ends without break and without raise.
QuarantineExpired ==
    /\ pc = "copy_wait"
    /\ wait.elapsed >= COPY_STATUS_TIMEOUT
    /\ pc' = "copy_done"
    /\ UNCHANGED << azureConfigured, req, wait, container, quarantine, localdir,
                    response, hist, served >>
    /\ UNCHANGED << input, output >>

\* After the loop: set_blob_metadata, set_blob_tags, delete_blob, return.
\* failAt names the call that raises, "none" when all three succeed.
QuarantineFinish(failAt) ==
    /\ pc = "copy_done"
    /\ failAt \in {"set_blob_metadata", "set_blob_tags", "delete_blob", "none"}
    /\ LET name == req.quarantine_name
           withMeta == [quarantine EXCEPT ![name].originalPath = req.blob_path,
                                          ![name].quarantinedReason = req.scan_status]
           withTags == [withMeta EXCEPT ![name].quarantined = TRUE]
           gone == req.blob_path \notin DOMAIN container
           fail == IF failAt = "none" /\ gone THEN "delete_blob" ELSE failAt
       IN  /\ quarantine' = CASE fail = "set_blob_metadata" -> quarantine
                               [] fail = "set_blob_tags" -> withMeta
                               [] OTHER -> withTags
           /\ container' = IF fail = "none" THEN Remove(container, req.blob_path)
                            ELSE container
           /\ hist' = [hist EXCEPT !.deletedOriginal = (fail = "none")]
           /\ req' = [req EXCEPT !.quarantined = (fail = "none")]
    /\ pc' = "respond403"
    /\ wait' = NoWait
    /\ UNCHANGED << azureConfigured, localdir, response, served >>
    /\ UNCHANGED << input, output >>

\* The copy engine finishes a pending copy: the destination receives the
\* source's bytes, or the copy fails or is aborted.
CopyProgress(name, outcome) ==
    /\ name \in DOMAIN quarantine
    /\ quarantine[name].copy = "pending"
    /\ outcome \in {"success", "failed", "aborted"}
    /\ outcome = "success" => quarantine[name].source \in DOMAIN container
    /\ quarantine' =
          IF outcome = "success"
          THEN [quarantine EXCEPT ![name].copy = "success",
                                  ![name].data = container[quarantine[name].source].data]
          ELSE [quarantine EXCEPT ![name].copy = outcome]
    /\ UNCHANGED << azureConfigured, pc, req, wait, container, localdir,
                    response, hist, served >>
    /\ UNCHANGED << input, output >>

\* Mutant: the malicious branch notifies the submitter before it answers.
RespondMalware_Notifies ==
    /\ pc = "respond403"
    /\ LET mailed == req.handler = "rfpi" \/ (req.handler = "submit" /\ req.recipient)
       IN  /\ response' = [NoResponse EXCEPT !.code = 403, !.error = "MalwareDetected",
                                             !.scanStatus = "malicious",
                                             !.quarantined = req.quarantined,
                                             !.emailSent = mailed]
           /\ req' = [req EXCEPT !.email_sent = mailed]
           /\ hist' = [hist EXCEPT !.emailTried = mailed]
    /\ pc' = "done"
    /\ UNCHANGED << azureConfigured, wait, container, quarantine, localdir, served >>
    /\ UNCHANGED << input, output >>

\* return jsonify({"error": "MalwareDetected", ...}), 403
RespondMalware ==
    /\ pc = "respond403"
    /\ response' = [NoResponse EXCEPT !.code = 403, !.error = "MalwareDetected",
                                      !.scanStatus = "malicious",
                                      !.quarantined = req.quarantined]
    /\ pc' = "done"
    /\ UNCHANGED << azureConfigured, req, wait, container, quarantine, localdir,
                    hist, served >>
    /\ UNCHANGED << input, output >>

\* ----------------------------------------------- update_blob_scan_status

\* Mutant: the else branch records a status of its own for the expired wait.
StatusToRecord_Timeout(scan_status) ==
    IF scan_status = CLEAN THEN "clean" ELSE "pending-with-timeout"

\* Mutant: the else branch records the status of the clean branch.
StatusToRecord_AlwaysClean(scan_status) == "clean"

\* The status the handler passes: "clean" on a clean verdict, else "pending".
StatusToRecord(scan_status) ==
    IF scan_status = CLEAN THEN "clean" ELSE "pending"

\* get_blob_properties, set_blob_metadata, get_blob_tags. failAt names the
\* call that raises; the function's except clause logs it and returns.
UpdateMetadata(failAt) ==
    /\ pc = "update"
    /\ failAt \in {"get_blob_properties", "set_blob_metadata", "get_blob_tags", "none"}
    /\ LET s == StatusToRecord(req.scan_status)
           present == req.blob_path \in DOMAIN container
           fail == IF present THEN failAt ELSE "get_blob_properties"
       IN  /\ container' =
                 IF fail \in {"get_blob_tags", "none"}
                 THEN [container EXCEPT ![req.blob_path].metadata.scanStatus = s]
                 ELSE container
           /\ IF fail = "none"
              THEN /\ req' = [req EXCEPT !.tags_read = container[req.blob_path].tags]
                   /\ pc' = "update_tags"
              ELSE /\ req' = [req EXCEPT !.manifest_scan = s]
                   /\ pc' = "stored"
           /\ hist' = [hist EXCEPT !.updated = TRUE]
    /\ UNCHANGED << azureConfigured, wait, quarantine, localdir, response, served >>
    /\ UNCHANGED << input, output >>

\* Mutant: after the tags the archive is put again with the recorded status
\* in its manifest.
UpdateTags_RewritesArchive(ok) ==
    /\ pc = "update_tags"
    /\ ok \in BOOLEAN
    /\ LET s == StatusToRecord(req.scan_status)
           present == req.blob_path \in DOMAIN container
           n == Len(req.zip_buffer)
       IN  /\ container' =
                 IF ok /\ present
                 THEN [container EXCEPT
                          ![req.blob_path].tags = [req.tags_read EXCEPT !.scanStatus = s],
                          ![req.blob_path].data =
                              [req.zip_buffer EXCEPT ![n].data.scanStatus = s]]
                 ELSE container
           /\ req' = [req EXCEPT !.manifest_scan = s]
    /\ pc' = "stored"
    /\ UNCHANGED << azureConfigured, wait, quarantine, localdir, response, hist, served >>
    /\ UNCHANGED << input, output >>

\* tags["scanStatus"] = scan_status; set_blob_tags(tags), which replaces the
\* blob's whole tag set by the one read before. Then the handler records
\* the status in its manifest dict.
UpdateTags(ok) ==
    /\ pc = "update_tags"
    /\ ok \in BOOLEAN
    /\ LET s == StatusToRecord(req.scan_status)
           present == req.blob_path \in DOMAIN container
       IN  /\ container' =
                 IF ok /\ present
                 THEN [container EXCEPT ![req.blob_path].tags =
                          [req.tags_read EXCEPT !.scanStatus = s]]
                 ELSE container
           /\ req' = [req EXCEPT !.manifest_scan = s]
    /\ pc' = "stored"
    /\ UNCHANGED << azureConfigured, wait, quarantine, localdir, response, hist, served >>
    /\ UNCHANGED << input, output >>

\* ------------------------------------------------ handler: local fallback

\* if not upload_success: the archive is written to LOCAL_STORAGE_FALLBACK.
LocalSave ==
    /\ pc = "local"
    /\ ~req.upload_success
    /\ localdir' = Put(localdir, req.zip_name, req.zip_buffer)
    /\ hist' = [hist EXCEPT !.wroteLocal = TRUE]
    /\ pc' = "stored"
    /\ UNCHANGED << azureConfigured, req, wait, container, quarantine, response, served >>
    /\ UNCHANGED << input, output >>

\* Mutant: the exception of the local write leaves the handler unanswered.
LocalSaveFails_Unhandled ==
    /\ pc = "local"
    /\ ~req.upload_success
    /\ pc' = "done"
    /\ UNCHANGED << azureConfigured, req, wait, container, quarantine, localdir,
                    response, hist, served >>
    /\ UNCHANGED << input, output >>

\* open(local_path, 'wb') raises: the handler's outermost except clause
\* answers 500 UploadFailed with str(e) as the message.
LocalSaveFails ==
    /\ pc = "local"
    /\ ~req.upload_success
    /\ response' = [NoResponse EXCEPT !.code = 500, !.error = "UploadFailed",
                                      !.details = << "OSError" >>]
    /\ pc' = "done"
    /\ UNCHANGED << azureConfigured, req, wait, container, quarantine, localdir,
                    hist, served >>
    /\ UNCHANGED << input, output >>

\* ------------------------------------------------- handler: e-mail, 201

\* /submit sends when a recipient address was given, /rfpi-submit always,
\* /upload never.
SendsEmail(r) ==
    \/ r.handler = "rfpi"
    \/ r.handler = "submit" /\ r.recipient

\* /rfpi-submit: send_rfpi_confirmation_email returns {"success": sent}; its
\* own except clause turns every failure into success False.
SendRfpiEmail(sent) ==
    /\ pc = "stored"
    /\ req.handler = "rfpi"
    /\ ~hist.emailTried
    /\ sent \in BOOLEAN
    /\ req' = [req EXCEPT !.email_sent = sent]
    /\ hist' = [hist EXCEPT !.emailTried = TRUE]
    /\ UNCHANGED << azureConfigured, pc, wait, container, quarantine, localdir,
                    response, served >>
    /\ UNCHANGED << input, output >>

\* /submit: send_generic_submission_email, the e-mail sender interface
\* send(...) -> {success}, whose failures are never fatal to the pipeline.
SendGenericEmail(sent) ==
    /\ pc = "stored"
    /\ req.handler = "submit"
    /\ req.recipient
    /\ ~hist.emailTried
    /\ sent \in BOOLEAN
    /\ req' = [req EXCEPT !.email_sent = sent]
    /\ hist' = [hist EXCEPT !.emailTried = TRUE]
    /\ UNCHANGED << azureConfigured, pc, wait, container, quarantine, localdir,
                    response, served >>
    /\ UNCHANGED << input, output >>

\* A handler that lets the e-mail's failure reach its outermost except clause.
RespondUploaded_MailRequired ==
    /\ pc = "stored"
    /\ SendsEmail(req) => hist.emailTried
    /\ response' = IF SendsEmail(req) /\ ~req.email_sent
                   THEN [NoResponse EXCEPT !.code = 500, !.error = "UploadFailed"]
                   ELSE [NoResponse EXCEPT !.code = 201, !.status = "uploaded",
                                           !.scanStatus = req.manifest_scan,
                                           !.storageMode = req.storage_location,
                                           !.zipSha256 = req.zip_hash,
                                           !.emailSent = req.email_sent,
                                           !.warnings = req.file_errors,
                                           !.files = ResponseFiles(req.files)]
    /\ pc' = "done"
    /\ UNCHANGED << azureConfigured, req, wait, container, quarantine, localdir,
                    hist, served >>
    /\ UNCHANGED << input, output >>

\* return jsonify({... "status": "uploaded"}), 201
RespondUploaded ==
    /\ pc = "stored"
    /\ SendsEmail(req) => hist.emailTried
    /\ response' = [NoResponse EXCEPT !.code = 201, !.status = "uploaded",
                                      !.scanStatus = req.manifest_scan,
                                      !.storageMode = req.storage_location,
                                      !.zipSha256 = req.zip_hash,
                                      !.emailSent = req.email_sent,
                                      !.warnings = req.file_errors,
                                      !.files = ResponseFiles(req.files)]
    /\ pc' = "done"
    /\ UNCHANGED << azureConfigured, req, wait, container, quarantine, localdir,
                    hist, served >>
    /\ UNCHANGED << input, output >>

\* ------------------------------------------------------------ behaviours

Next ==
    \/ \E h \in Handlers, id \in Ids, t \in Times, c \in Contents, mail \in BOOLEAN :
          Receive(h, id, t, c, mail, PlainTags(h))
    \/ SkipAzure
    \/ \E step \in {"client", "container", "upload_blob"} : AzureUploadFails(step)
    \/ \E lat \in Latency : AzureUpload(lat)
    \/ \E ok \in BOOLEAN : WaitPoll(ok)
    \/ WaitExpired
    \/ Dispatch
    \/ \E path \in BlobPaths, v \in DefenderValues : DefenderScan(path, v)
    \/ \E t \in Times, ok \in BOOLEAN, lat \in Latency : QuarantineStart(t, ok, lat)
    \/ \E ok \in BOOLEAN : QuarantinePoll(ok)
    \/ QuarantineExpired
    \/ \E failAt \in {"set_blob_metadata", "set_blob_tags", "delete_blob", "none"} :
          QuarantineFinish(failAt)
    \/ \E name \in QuarantineNames, outcome \in {"success", "failed", "aborted"} :
          CopyProgress(name, outcome)
    \/ RespondMalware
    \/ \E failAt \in {"get_blob_properties", "set_blob_metadata", "get_blob_tags", "none"} :
          UpdateMetadata(failAt)
    \/ \E ok \in BOOLEAN : UpdateTags(ok)
    \/ LocalSave
    \/ LocalSaveFails
    \/ \E sent \in BOOLEAN : SendRfpiEmail(sent)
    \/ \E sent \in BOOLEAN : SendGenericEmail(sent)
    \/ RespondUploaded

\* One request, followed through its handler, with the services around it.
Spec == Init /\ [][Next]_vars

\* Requests served one after another against a storage account on which
\* Defender for Storage is not enabled (no verdict is ever attached).
RetryNext ==
    \/ \E h \in Handlers, id \in Ids, t \in Times, c \in Contents, mail \in BOOLEAN :
          Receive(h, id, t, c, mail, PlainTags(h))
    \/ \E h \in Handlers, id \in Ids, t \in Times, c \in Contents, mail \in BOOLEAN :
          ReceiveNext(h, id, t, c, mail, PlainTags(h))
    \/ SkipAzure
    \/ \E step \in {"client", "container", "upload_blob"} : AzureUploadFails(step)
    \/ AzureUploadExists
    \/ \E lat \in Latency : AzureUpload(lat)
    \/ \E ok \in BOOLEAN : WaitPoll(ok)
    \/ WaitExpired
    \/ Dispatch
    \/ \E failAt \in {"get_blob_properties", "set_blob_metadata", "get_blob_tags", "none"} :
          UpdateMetadata(failAt)
    \/ \E ok \in BOOLEAN : UpdateTags(ok)
    \/ LocalSave
    \/ LocalSaveFails
    \/ \E sent \in BOOLEAN : SendRfpiEmail(sent)
    \/ \E sent \in BOOLEAN : SendGenericEmail(sent)
    \/ RespondUploaded

RetrySpec == Init /\ [][RetryNext]_vars

\* ================================================================ claims

Answered == response.code # 0

\* The blob the current request uploaded is still at its original path.
OriginalPresent == req.blob_path \in DOMAIN container

\* The quarantine copy of the current request exists, its copy succeeded
\* and it carries the tag quarantined=true.
QuarantineCopyComplete ==
    /\ req.quarantine_name \in DOMAIN quarantine
    /\ quarantine[req.quarantine_name].copy = "success"
    /\ quarantine[req.quarantine_name].quarantined

\* C1: a request whose wait_for_scan_result returned malicious has called
\* quarantine_blob by the time it is answered, is answered 403
\* MalwareDetected and never 201 "uploaded", whatever the quarantine's outcome.
C1_MaliciousRejected ==
    (Answered /\ req.scan_status = MALICIOUS) =>
        /\ response.code = 403
        /\ response.error = "MalwareDetected"
        /\ response.status # "uploaded"
        /\ hist.quarantineCalled

\* C1 witness: a malicious archive answered 403 although its quarantine failed.
C1_Witness ==
    /\ Answered
    /\ req.scan_status = MALICIOUS
    /\ response.code = 403
    /\ hist.copyStarted
    /\ ~response.quarantined

\* C2: quarantine_blob deletes the original only after one of its polls
\* observed copy status "success".
C2_DeleteOnlyAfterSuccess ==
    hist.deletedOriginal => hist.sawSuccess

\* C3: the quarantined flag of the 403 response is True exactly when the
\* original is gone from its path and the quarantine copy exists with copy
\* status "success" and tag quarantined=true.
C3_FlagReflectsOutcome ==
    (pc = "respond403") =>
        (req.quarantined <=> (~OriginalPresent /\ QuarantineCopyComplete))

\* The handler keeps running and the services keep answering.
FairSpec == Spec /\ WF_vars(Next)

\* Defender's verdict tag on the stored archive of the current request
\* reads Malicious.
MaliciousAttached ==
    /\ OriginalPresent
    /\ container[req.blob_path].tags.defender = "Malicious"

\* The request has been answered 201 and its archive is in durable storage
\* without a Malicious verdict so far.
AnsweredUnresolved ==
    /\ pc = "done"
    /\ response.code = 201
    /\ OriginalPresent
    /\ ~MaliciousAttached

\* C4: an archive in durable storage on which the scanner attaches a
\* Malicious verdict is eventually removed from its original path; stated
\* for the case the claim singles out, a verdict attached after the request
\* has been answered.
C4_LateVerdictQuarantined ==
    [](AnsweredUnresolved => [](MaliciousAttached => <>(~OriginalPresent)))

\* wait_for_scan_result has returned and every poll it made was unresolved
\* (no scan result, or an error reading the tags).
NeverResolved == pc = "scanned" /\ wait.unresolved = wait.attempts

\* C5 as stated: against a backend that never resolves, pending is returned
\* only once the time budget has been reached.
C5_PendingOnlyAtBudget ==
    NeverResolved =>
        /\ req.scan_status = PENDING
        /\ req.scan_timeout
        /\ wait.elapsed >= SCAN_TIMEOUT

\* C5 amended: against a backend that never resolves, wait_for_scan_result
\* returns pending with timeout=True, after more than one poll, and only
\* once the budget is reached or one more sleep of SCAN_POLL_INTERVAL would
\* reach it.
C5_PendingNearBudget ==
    NeverResolved =>
        /\ req.scan_status = PENDING
        /\ req.scan_timeout
        /\ wait.attempts > 1
        /\ wait.elapsed + SCAN_POLL_INTERVAL >= SCAN_TIMEOUT

\* C5 witness: pending returned by the attempt-count test, before the budget.
C5_Witness ==
    /\ NeverResolved
    /\ req.scan_status = PENDING
    /\ wait.elapsed < SCAN_TIMEOUT
    /\ wait.attempts * SCAN_POLL_INTERVAL >= SCAN_TIMEOUT

\* C6: when wait_for_scan_result returns clean, the clean poll was its last
\* poll, every earlier poll was unresolved, and it slept SCAN_POLL_INTERVAL
\* exactly once per earlier poll, the clean poll having started within the
\* budget.
C6_CleanAfterKSleeps ==
    (pc = "scanned" /\ req.scan_status = CLEAN) =>
        /\ wait.unresolved = wait.attempts - 1
        /\ wait.sleeps = wait.unresolved
        /\ wait.slept = wait.unresolved * SCAN_POLL_INTERVAL
        /\ wait.elapsed = wait.slept + wait.attempts * wait.lat
        /\ wait.elapsed - wait.lat < SCAN_TIMEOUT

\* C6 witness: no result on two polls, clean on the third, two sleeps.
C6_Witness ==
    /\ pc = "scanned"
    /\ req.scan_status = CLEAN
    /\ wait.attempts = 3
    /\ wait.sleeps = 2
    /\ wait.slept = 2 * SCAN_POLL_INTERVAL

\* C7: a request whose scan result was pending is answered 201 "uploaded"
\* with scanStatus "pending"; its blob is at its original path with the
\* uploaded bytes, scanStatus metadata and tag "pending"; no quarantine.
C7_PendingAccepted ==
    (Answered /\ req.scan_status = PENDING) =>
        /\ response.code = 201
        /\ response.status = "uploaded"
        /\ response.scanStatus = "pending"
        /\ OriginalPresent
        /\ container[req.blob_path].data = req.zip_buffer
        /\ container[req.blob_path].metadata.scanStatus = "pending"
        /\ container[req.blob_path].tags.scanStatus = "pending"
        /\ ~hist.quarantineCalled
        /\ quarantine = Empty

\* C7 witness: a timed-out scan, the status update made, the request answered.
C7_Witness ==
    /\ Answered
    /\ req.scan_status = PENDING
    /\ req.scan_timeout
    /\ hist.updated
    /\ response.code = 201

\* The Pass-2 bytes of the current request, rebuilt from its inputs.
Pass2Bytes == BuildArchive(req.submission_id, req.now_et, req.files, req.tags).zip_buffer

StoredFor(r) ==
    Cardinality({ p \in DOMAIN container : p = r.blob_path })
    + Cardinality({ n \in DOMAIN localdir :
                      /\ n[1] = LocalPrefix(r.handler)
                      /\ Day(n[2]) = Day(r.now_et)
                      /\ n[3] = r.submission_id })

\* C9: when the archive of an identifier is put a second time to the blob
\* path that already holds it, the put overwrites: afterwards exactly one
\* object exists for the identifier, at that path, holding the bytes of
\* the second put, and nothing was written elsewhere.
C9_RetryOverwrites ==
    (Answered /\ hist.refused) =>
        /\ StoredFor(req) = 1
        /\ OriginalPresent
        /\ ~hist.wroteLocal

\* The archives persisted by the handlers.
StoredArchives ==
    { container[p].data : p \in DOMAIN container }
        \cup { localdir[n] : n \in DOMAIN localdir }

\* The manifest embedded in an archive (its last entry).
ManifestOf(a) == a[Len(a)].data

\* Pass 1 recomputed from a persisted archive: the same file payloads and
\* the manifest without its zip block.
Pass1Of(a) ==
    LET m == [ManifestOf(a) EXCEPT !.zip = <<>>]
    IN  [i \in 1..Len(a) |->
            IF i < Len(a) THEN a[i]
            ELSE [name |-> "manifest.json", data |-> m, size |-> ManifestSize(m)]]

\* C10: in every persisted archive the manifest's zip.zipSha256 and
\* zip.zipSizeBytes are the digest and size of the Pass-1 archive, and
\* zipSha256 is not the digest of the persisted archive itself.
C10_ZipBlockDescribesPass1 ==
    \A a \in StoredArchives :
        /\ ManifestOf(a).zip # <<>>
        /\ ManifestOf(a).zip[1] = Sha256(Pass1Of(a))
        /\ ManifestOf(a).zip[2] = ZipSize(Pass1Of(a))
        /\ ManifestOf(a).zip[1] # Sha256(a)

\* C10 witness: a request of /rfpi-submit or /upload answered 201, its
\* archive persisted with a zip block giving the Pass-1 size.
C10_Witness ==
    /\ Answered
    /\ response.code = 201
    /\ StoredArchives # {}
    /\ req.handler \in {"rfpi", "upload"}
    /\ \A a \in StoredArchives : ManifestOf(a).zip[2] = ZipSize(Pass1Of(a))

\* The bytes persisted for the current request: the blob at its path or the
\* local file under its name.
PersistedBytes ==
    IF response.storageMode = "azure" THEN container[req.blob_path].data
    ELSE localdir[req.zip_name]

\* C11: the zipSha256 of the 201 response, and the zipSha256 metadata of the
\* stored object, are the digest of the bytes that were persisted (Pass 2).
C11_ReportedDigestIsPass2 ==
    (Answered /\ response.code = 201) =>
        /\ response.zipSha256 = Sha256(PersistedBytes)
        /\ response.storageMode = "azure" =>
              container[req.blob_path].metadata.zipSha256 = Sha256(PersistedBytes)


\* One request with any tag set of RequestTags, followed through its handler
\* against a storage account on which Defender for Storage is not enabled.
TaggedNext ==
    \/ \E h \in Handlers, id \in Ids, t \in Times, c \in Contents, mail \in BOOLEAN,
          tags \in RequestTags :
          Receive(h, id, t, c, mail, tags)
    \/ \E h \in Handlers, tags \in RequestTags : RejectTags(h, tags)
    \/ \E h \in Handlers, tags \in RequestTags : TagsRaise(h, tags)
    \/ SkipAzure
    \/ \E step \in {"client", "container", "upload_blob"} : AzureUploadFails(step)
    \/ \E lat \in Latency : AzureUpload(lat)
    \/ \E ok \in BOOLEAN : WaitPoll(ok)
    \/ WaitExpired
    \/ Dispatch
    \/ \E failAt \in {"get_blob_properties", "set_blob_metadata", "get_blob_tags", "none"} :
          UpdateMetadata(failAt)
    \/ \E ok \in BOOLEAN : UpdateTags(ok)
    \/ LocalSave
    \/ LocalSaveFails
    \/ \E sent \in BOOLEAN : SendRfpiEmail(sent)
    \/ \E sent \in BOOLEAN : SendGenericEmail(sent)
    \/ RespondUploaded

TaggedSpec == Init /\ [][TaggedNext]_vars

\* The keys of the request's tag set that are reserved keys.
ReservedSent == DictKeys(req.user_tags.dict) \cap reserved_keys

\* C18: a request to /upload or /submit whose tag set includes a reserved
\* key is not refused for it; its effective tags hold the value under
\* "user." + key and hold nothing under the reserved key itself.
C18_ReservedKeyPrefixed ==
    (Answered /\ req.handler \in {"upload", "submit"} /\ ReservedSent # {}) =>
        /\ response.code # 400
        /\ \A k \in ReservedSent :
              /\ ("user." \o k) \in DictKeys(req.tags)
              /\ k \notin DictKeys(req.tags)

\* The request passed its checks and its archive was built.
Packing == req.handler \in Handlers /\ req.zip_buffer # <<>>

\* The form name a handler assigns.
FormOf(h) == IF h = "upload" THEN UPLOAD_FORM ELSE GENERIC_FORM

\* The documentType a handler assigns to the file of a field.
DocumentTypeOf(h, field) ==
    IF h = "upload"
    THEN (IF field = "architectureDiagram" THEN "architecture-diagram" ELSE "charter")
    ELSE secure_filename(field)

\* The system keys of a dict of /upload or /submit carry the values the
\* handler assigns.
SystemValues(dict, h, count) ==
    /\ DictGet(dict, "scanStatus") = "pending"
    /\ DictGet(dict, "sourceForm") = FormOf(h)
    /\ h = "submit" => DictGet(dict, "fileCount") = StrOfNat(count)

\* C19: in the manifest of every archive built by /upload or /submit each
\* File Record's effectiveTags carry the documentType and sourceForm the
\* handler assigns, and the index tags and metadata written with the blob
\* carry the handler's scanStatus, sourceForm, fileCount, submissionId and
\* zipSha256, whatever tag set the request brought.
C19_SystemTagsNotReplaced ==
    (Packing /\ req.handler \in {"upload", "submit"}) =>
        /\ \A i \in 1..Len(ManifestOf(req.zip_buffer).files) :
              LET record == ManifestOf(req.zip_buffer).files[i]
              IN  /\ DictGet(record.effectiveTags, "documentType")
                        = DocumentTypeOf(req.handler, record.field)
                  /\ DictGet(record.effectiveTags, "sourceForm") = FormOf(req.handler)
        /\ ManifestOf(req.zip_buffer).scanStatus = "pending"
        /\ req.blob_path \in DOMAIN container =>
              LET blob == container[req.blob_path]
              IN  /\ SystemValues(blob.tags.uploaded, req.handler, Len(req.files))
                  /\ SystemValues(blob.metadata.uploaded, req.handler, Len(req.files))
                  /\ DictGet(blob.metadata.uploaded, "submissionId") = req.submission_id
                  /\ DictGet(blob.metadata.uploaded, "zipSha256") = req.zip_hash

\* C19 witness: /submit, with a tag set of the caller's that passed the
\* checks, has written its blob with index tags and metadata.
C19_Witness ==
    /\ Packing
    /\ req.handler = "submit"
    /\ req.tags # <<>>
    /\ req.blob_path \in DOMAIN container
    /\ "project" \in DictKeys(container[req.blob_path].tags.uploaded)
    /\ "tag_project" \in DictKeys(container[req.blob_path].metadata.uploaded)

\* A pair whose key or value does not fit its pattern.
InvalidPair(pair) ==
    \/ ~validate_tag_key(pair[1])
    \/ ~pair[2].str
    \/ ~validate_tag_value(pair[2].text)

InvalidPairs(dict) == { i \in 1..Len(dict) : InvalidPair(dict[i]) }

\* C20: a request to /upload or /submit with an invalid tag pair is answered
\* 400 ValidationFailed naming an invalid pair; no archive is built, nothing
\* is written to either backend, no scan is awaited and no e-mail is sent.
C20_InvalidTagsRefused ==
    (Answered /\ req.handler \in {"upload", "submit"}
              /\ InvalidPairs(req.user_tags.dict) # {}) =>
        /\ response.code = 400
        /\ response.error = "ValidationFailed"
        /\ \E i \in InvalidPairs(req.user_tags.dict) :
              response.details = << "Invalid tag format", req.user_tags.dict[i][1],
                                    req.user_tags.dict[i][2].text >>
        /\ req.zip_buffer = <<>>
        /\ container = Empty
        /\ localdir = Empty
        /\ wait = NoWait
        /\ ~hist.emailTried

\* ------------------------------------------- helper functions on their own

\* No request is in progress and the stores are empty.
HandlersIdle ==
    /\ azureConfigured = FALSE
    /\ pc = "idle"
    /\ req = NoReq
    /\ wait = NoWait
    /\ container = Empty
    /\ quarantine = Empty
    /\ localdir = Empty
    /\ response = NoResponse
    /\ hist = NoHist
    /\ served = 0

\* The values a tag can have in the parsed JSON.
TagValues == { JsonStr(v) : v \in TagValueStrings } \cup { JsonOther("7") }

\* A tag set of one pair.
TagPairInputs ==
    { [fn |-> "validate_tags", tags |-> << << k, v >> >>] :
        k \in TagKeyStrings, v \in TagValues }

\* The validation loop applied to the tag set.
CheckTags ==
    /\ input.fn = "validate_tags"
    /\ ~output.done
    /\ output' = [done |-> TRUE, result |-> ValidateTags(input.tags, <<>>)]
    /\ UNCHANGED input
    /\ UNCHANGED handlerVars

TagInit ==
    /\ HandlersIdle
    /\ input \in TagPairInputs
    /\ output = NoOutput

\* Tag validation applied to one key/value pair.
TagSpec == TagInit /\ [][CheckTags]_vars

\* C17: tag validation rejects the key "Proj_1" and accepts the pair
\* "proj-1" = "Battery Pack #7".
C17_TagExamples ==
    (input.fn = "validate_tags" /\ output.done) =>
        /\ input.tags[1][1] = "Proj_1" => output.result.outcome = "invalid"
        /\ input.tags[1] = << "proj-1", JsonStr("Battery Pack #7") >> =>
              output.result.outcome = "ok"

MaxPos == 2   \* largest cursor position a stream has when a helper is entered

\* Contents of uploaded files: one per signature, near misses, a container
\* with a ppt/ entry, a broken container, plain text, undecodable bytes.
StreamBytes ==
    { PDF_SIG \o << "1" >>,
      << "%", "P", "D", "F" >>,
      PK_SIG \o << "word/document.xml", "EOCD" >>,
      PK_SIG \o << "ppt/slides/slide1.xml", "EOCD" >>,
      PK_SIG \o << "word/document.xml", "ppt/slides/slide1.xml", "EOCD" >>,
      PK_SIG \o << "xl/workbook.xml", "EOCD" >>,
      PK_SIG \o << "x11" >>,
      XLS_SIG \o << "x11" >>,
      PNG_SIG \o << "x11" >>,
      JPEG_SIG \o << "x11" >>,
      << "a", "b", "c" >>,
      << "xFE", "x11", "a" >>,
      << >> }

StreamInputs ==
    { [fn |-> "stream", stream |-> [bytes |-> b, pos |-> p], filename |-> f] :
        b \in StreamBytes, p \in 0..MaxPos, f \in FileNames }

Validators ==
    { "validate_pdf_signature", "validate_docx_signature", "validate_excel_signature",
      "validate_pptx_signature", "validate_text_signature", "validate_image_signature" }

\* The validator of that name applied to a stream.
Validate(name, stream) ==
    CASE name = "validate_pdf_signature"   -> validate_pdf_signature(stream)
      [] name = "validate_docx_signature"  -> validate_docx_signature(stream)
      [] name = "validate_excel_signature" -> validate_excel_signature(stream)
      [] name = "validate_pptx_signature"  -> validate_pptx_signature(stream)
      [] name = "validate_text_signature"  -> validate_text_signature(stream)
      [] name = "validate_image_signature" -> validate_image_signature(stream)

CallValidator(name) ==
    /\ input.fn = "stream"
    /\ ~output.done
    /\ LET r == Validate(name, input.stream)
       IN  output' = [done |-> TRUE, fn |-> name, ok |-> r.ok, type |-> NoKind,
                      stream |-> r.stream]
    /\ UNCHANGED input
    /\ UNCHANGED handlerVars

CallDetect ==
    /\ input.fn = "stream"
    /\ ~output.done
    /\ LET r == detect_file_type(input.stream, input.filename)
       IN  output' = [done |-> TRUE, fn |-> "detect_file_type", ok |-> r.type # NoKind,
                      type |-> r.type, stream |-> r.stream]
    /\ UNCHANGED input
    /\ UNCHANGED handlerVars

CallSha256 ==
    /\ input.fn = "stream"
    /\ ~output.done
    /\ LET r == compute_sha256(input.stream)
       IN  output' = [done |-> TRUE, fn |-> "compute_sha256", ok |-> TRUE,
                      type |-> NoKind, stream |-> r.stream]
    /\ UNCHANGED input
    /\ UNCHANGED handlerVars

StreamInit ==
    /\ HandlersIdle
    /\ input \in StreamInputs
    /\ output = NoOutput

StreamNext ==
    \/ \E name \in Validators : CallValidator(name)
    \/ CallDetect
    \/ CallSha256

\* One of the stream helpers applied to an uploaded file's stream.
StreamSpec == StreamInit /\ [][StreamNext]_vars

Detected == input.fn = "stream" /\ output.done /\ output.fn = "detect_file_type"

\* No validator accepts the bytes.
MatchesNoSignature(stream) ==
    \A name \in Validators : ~Validate(name, stream).ok

\* C14: detect_file_type returns the same kind for the same bytes under any
\* other filename, and the unrecognized result for bytes that match no
\* signature.
C14_KindIgnoresFilename ==
    Detected =>
        /\ \A other \in FileNames :
              detect_file_type(input.stream, other).type = output.type
        /\ MatchesNoSignature(input.stream) => output.type = NoKind

\* A zip container with an entry under ppt/ and no word/document.xml entry.
IsPresentation(bytes) ==
    LET zip == ZipOpen([bytes |-> bytes, pos |-> 0])
    IN  /\ StartsWith(bytes, PK_SIG)
        /\ ~zip.bad
        /\ \E i \in 1..Len(zip.namelist) : UnderPpt(zip.namelist[i])
        /\ "word/document.xml" \notin Range(zip.namelist)

\* C15: for a zip container with an entry under ppt/ and no
\* word/document.xml entry, detect_file_type returns pptx.
C15_PresentationDetected ==
    (Detected /\ IsPresentation(input.stream.bytes)) => output.type = "pptx"

\* The bytes a read from the cursor to the end returns.
Rest(stream) == Read(stream, Len(stream.bytes)).data

\* C16: each validator, detect_file_type and compute_sha256 returns with
\* the cursor where it was on entry and the bytes untouched, so a read from
\* there returns what it would have returned before the call.
C16_CursorRestored ==
    (input.fn = "stream" /\ output.done) =>
        /\ output.stream.pos = input.stream.pos
        /\ output.stream.bytes = input.stream.bytes
        /\ Rest(output.stream) = Rest(input.stream)

\* C16 witness: the container check, entered with the cursor inside the
\* stream, has opened the zip directory and returned.
C16_Witness ==
    /\ input.fn = "stream"
    /\ output.done
    /\ output.fn = "validate_docx_signature"
    /\ output.ok
    /\ input.stream.pos = MaxPos
    /\ ZipOpen(input.stream).stream.pos # input.stream.pos

MaxFiles == 2   \* most parts in a /submit request

ArchiveFileNames == { "r.pdf", "my report.pdf", "a.PNG", "a.jpg" }
BudgetFileNames  == { "a.xls", "a.xlsx" }
PngBytes  == PNG_SIG \o << "x11" >>
JunkBytes == << "xFE", "x11" >>
ArchiveBytes == { PdfBytes(0, 1), PdfBytes(1, 1), PngBytes, JunkBytes }

\* request.files of a /submit request: up to MaxFiles parts, field names distinct
SubmitUploads ==
    UNION { { u \in [1..n -> { Upload(fd, fl, b) : fd \in FieldNames,
                                                  fl \in ArchiveFileNames,
                                                  b \in ArchiveBytes }] :
                \A i, j \in 1..n : i # j => u[i].field # u[j].field } :
            n \in 1..MaxFiles }

UploadUploads ==
    { << Upload("architectureDiagram", f1, b1), Upload("charter", f2, b2) >> :
        f1 \in ArchiveFileNames, f2 \in ArchiveFileNames,
        b1 \in { PdfBytes(0, 1), PdfBytes(1, 1), JunkBytes },
        b2 \in { DocxBytes, XlsxBytes } }

RfpiUploads ==
    { UploadsOf("rfpi", c) : c \in {0, 1} }
    \cup { << Upload("rfpiProposal", "r.pdf", PdfBytes(0, 1)),
              Upload("financialDocuments", "r.pdf", PdfBytes(0, 2)),
              Upload("additionalDocuments", "r.pdf", b3),
              Upload("budgetJustification", f4, XlsxBytes),
              Upload("optionalBudget1", f5, b5) >> :
            b3 \in { PdfBytes(0, 3), JunkBytes },
            f4 \in BudgetFileNames, f5 \in BudgetFileNames,
            b5 \in { XlsxBytes, XLS_SIG \o << "x11" >>, JunkBytes } }

ArchiveInputs ==
    { [fn |-> "archive", handler |-> "submit", uploads |-> u] : u \in SubmitUploads }
    \cup { [fn |-> "archive", handler |-> "upload", uploads |-> u] : u \in UploadUploads }
    \cup { [fn |-> "archive", handler |-> "rfpi", uploads |-> u] : u \in RfpiUploads }

\* The handler's file checks pass; it packs the archive and the processor
\* extracts it.
PackFiles ==
    /\ input.fn = "archive"
    /\ ~output.done
    /\ FilesAccepted(input.handler, input.uploads)
    /\ LET files == FilesData(input.handler, input.uploads, <<>>)
           built == BuildArchive(1, 0, files, <<>>)
       IN  output' = [done |-> TRUE, accepted |-> TRUE, files |-> files,
                      extracted |-> extract_zip(built.zip_buffer)]
    /\ UNCHANGED input
    /\ UNCHANGED handlerVars

\* The handler's file checks fail: 400, nothing is packed.
RefuseFiles ==
    /\ input.fn = "archive"
    /\ ~output.done
    /\ ~FilesAccepted(input.handler, input.uploads)
    /\ output' = [done |-> TRUE, accepted |-> FALSE]
    /\ UNCHANGED input
    /\ UNCHANGED handlerVars

ArchiveInit ==
    /\ HandlersIdle
    /\ input \in ArchiveInputs
    /\ output = NoOutput

ArchiveNext == PackFiles \/ RefuseFiles

\* A handler packing the files of one request, and the archive extracted.
ArchiveSpec == ArchiveInit /\ [][ArchiveNext]_vars

Packed == input.fn = "archive" /\ output.done /\ output.accepted

\* C12: extracting a built archive yields, at every File Record's
\* storedPathInZip, the bytes submitted for that record's field, and the
\* record's sha256 and sizeBytes are those of the extracted bytes.
C12_ExtractedMatchesSubmitted ==
    Packed =>
        LET records == output.extracted["manifest.json"].files
        IN  \A i \in 1..Len(records) :
              LET bytes == output.extracted[records[i].storedPathInZip]
              IN  /\ bytes = FileIn(input.uploads, records[i].field).stream.bytes
                  /\ records[i].sha256 = Sha256(bytes)
                  /\ records[i].sizeBytes = Len(bytes)

\* The request with the filename of part i replaced.
Renamed(uploads, i, filename) == [uploads EXCEPT ![i].filename = filename]

\* C13: a file's storedPathInZip is the same whatever filename the caller
\* gave it, and two File Records of one archive never share a path.
C13_PathFromRoleAlone ==
    Packed =>
        /\ \A i, j \in 1..Len(output.files) :
              i # j => output.files[i].path # output.files[j].path
        /\ \A i \in 1..Len(input.uploads) :
              \A filename \in ArchiveFileNames \cup BudgetFileNames :
                LET other == FilesData(input.handler,
                                       Renamed(input.uploads, i, filename), <<>>)
                IN  \A a \in 1..Len(output.files), b \in 1..Len(other) :
                      output.files[a].field = other[b].field =>
                          output.files[a].path = other[b].path

\* ------------------------------------------- requests with any files

\* The presence checks on request.files that begin a handler.
FilesPresent(h, uploads) ==
    CASE h = "upload" -> {"architectureDiagram", "charter"} \subseteq Fields(uploads)
      [] h = "submit" -> uploads # <<>>
      [] h = "rfpi"   -> \A i \in 1..Len(RfpiRequired) :
                            /\ RfpiRequired[i][1] \in Fields(uploads)
                            /\ FileIn(uploads, RfpiRequired[i][1]).filename # ""

\* The 400 answer to files that fail a handler's checks: 'details' is the
\* handler's message, or file_errors when /submit has collected any.
FilesRefusal(h, uploads) ==
    IF ~FilesPresent(h, uploads)
    THEN [code |-> 400, details |-> << "files" >>, fileDetails |-> <<>>]
    ELSE IF h = "submit" /\ FileErrors(RequestFiles(uploads)) # <<>>
    THEN [code |-> 400, details |-> <<>>,
          fileDetails |-> FileErrors(RequestFiles(uploads))]
    ELSE [code |-> 400, details |-> << "signature" >>, fileDetails |-> <<>>]

\* The checks of a handler in the order it makes them: the presence of the
\* files, the tags, the signatures; code 0 when all pass.
FormCheck_ProjectOptional(h, uploads, tags) ==
    IF ~FilesPresent(h, uploads) THEN FilesRefusal(h, uploads)
    ELSE IF h = "upload" /\ ~tags.present
    THEN [code |-> 400, details |-> << "Missing required tags" >>, fileDetails |-> <<>>]
    ELSE IF h # "rfpi" /\ ValidateTags(tags.dict, <<>>).outcome = "invalid"
    THEN [code |-> 400, details |-> TagsMessage(ValidateTags(tags.dict, <<>>)),
          fileDetails |-> <<>>]
    ELSE IF h # "rfpi" /\ ValidateTags(tags.dict, <<>>).outcome = "TypeError"
    THEN [code |-> 500, details |-> << "TypeError" >>, fileDetails |-> <<>>]
    ELSE IF ~FilesAccepted(h, uploads) THEN FilesRefusal(h, uploads)
    ELSE [code |-> 0, details |-> <<>>, fileDetails |-> <<>>]

FormCheck(h, uploads, tags) ==
    IF ~FilesPresent(h, uploads) THEN FilesRefusal(h, uploads)
    ELSE IF CheckRequestTags(h, tags).outcome \in {"missing", "no_project", "invalid"}
    THEN [code |-> 400, details |-> TagsMessage(CheckRequestTags(h, tags)),
          fileDetails |-> <<>>]
    ELSE IF CheckRequestTags(h, tags).outcome = "TypeError"
    THEN [code |-> 500, details |-> << "TypeError" >>, fileDetails |-> <<>>]
    ELSE IF ~FilesAccepted(h, uploads) THEN FilesRefusal(h, uploads)
    ELSE [code |-> 0, details |-> <<>>, fileDetails |-> <<>>]

\* File processing onwards, for the parts of any request
ReadUploads(h, id, t, uploads, tags, effective_tags) ==
    [PackRequest(h, id, t, tags, effective_tags, FilesData(h, uploads, effective_tags))
        EXCEPT !.uploads = uploads,
               !.file_errors = IF h = "submit" THEN FileErrors(RequestFiles(uploads))
                               ELSE <<>>]

\* request.files of the requests followed through the handlers
FormUploads(h) ==
    CASE h = "upload" ->
           { UploadsOf("upload", 0),
             << Upload("architectureDiagram", "r.pdf", PdfBytes(0, 1)) >>,
             << Upload("architectureDiagram", "r.pdf", JunkBytes),
                Upload("charter", "c.docx", DocxBytes) >> }
      [] h = "submit" ->
           { << >>,
             << Upload("doc", "r.pdf", PdfBytes(0, 1)) >>,
             << Upload("doc", "a.jpg", JunkBytes) >>,
             << Upload("doc", "", PdfBytes(0, 1)) >>,
             << Upload("doc", "a.jpg", JunkBytes), Upload("photo", "a.PNG", PngBytes) >>,
             << Upload("doc", "r.pdf", PdfBytes(0, 1)), Upload("photo", "a.jpg", JunkBytes) >>,
             << Upload("doc", "r.pdf", PdfBytes(0, 1)), Upload("doc", "a.jpg", JunkBytes) >>,
             << Upload("doc", "a.jpg", JunkBytes), Upload("doc", "r.pdf", PdfBytes(0, 1)) >> }
      [] h = "rfpi" ->
           { UploadsOf("rfpi", 0),
             << Upload("rfpiProposal", "r.pdf", PdfBytes(0, 1)) >> }

\* The tag sets of RequestTags, and tag sets without the project key that
\* hold other tags, well-formed and not.
FormTags ==
    RequestTags
    \cup { Tags(<< << "proj-1", JsonStr("alpha") >> >>),
           Tags(<< << "Proj_1", JsonStr("alpha") >> >>),
           Tags(<< << "scanStatus", JsonOther("7") >> >>) }

\* FormCheck worked out once for every request followed, and ReadUploads for
\* those whose checks pass.
FormChecked ==
    UNION { { [h |-> k[1], tags |-> k[2], uploads |-> u,
               check |-> FormCheck(k[1], u, k[2])] : u \in FormUploads(k[1]) } :
              k \in { k \in Handlers \X FormTags : k[1] = "rfpi" => k[2] = NoTags } }

FormBuilt ==
    { [h |-> f.h, tags |-> f.tags, uploads |-> f.uploads, id |-> k[1], t |-> k[2],
       req |-> ReadUploads(f.h, k[1], k[2], f.uploads, f.tags,
                           handle_reserved_tags(CheckRequestTags(f.h, f.tags).tags))] :
        f \in { f \in FormChecked : f.check.code = 0 }, k \in Ids \X Times }

\* A request whose checks pass reaches "5. Storage".
AcceptForm(h, id, t, uploads, mail, tags) ==
    /\ pc = "idle"
    /\ mail => h = "submit"
    /\ \E b \in FormBuilt :
          /\ b.h = h /\ b.id = id /\ b.t = t
          /\ b.uploads = uploads /\ b.tags = tags
          /\ req' = [b.req EXCEPT !.recipient = mail]
    /\ pc' = "store"
    /\ wait' = NoWait
    /\ response' = NoResponse
    /\ hist' = NoHist
    /\ served' = served + 1
    /\ UNCHANGED << azureConfigured, container, quarantine, localdir >>
    /\ UNCHANGED << input, output >>

\* A request that fails a check is answered by it; nothing has been stored.
RefuseForm(h, uploads, tags) ==
    /\ pc = "idle"
    /\ \E f \in FormChecked :
          /\ f.h = h /\ f.uploads = uploads /\ f.tags = tags
          /\ f.check.code # 0
          /\ response' = [NoResponse EXCEPT
                             !.code = f.check.code,
                             !.error = IF f.check.code = 400
                                       THEN "ValidationFailed" ELSE "UploadFailed",
                             !.details = f.check.details,
                             !.fileDetails = f.check.fileDetails]
    /\ req' = [NoReq EXCEPT !.handler = h, !.user_tags = tags, !.uploads = uploads]
    /\ pc' = "done"
    /\ wait' = NoWait
    /\ hist' = NoHist
    /\ served' = served + 1
    /\ UNCHANGED << azureConfigured, container, quarantine, localdir >>
    /\ UNCHANGED << input, output >>

\* The requests are drawn from FormBuilt and FormChecked, which hold every
\* handler with each of its FormUploads and FormTags.
FormNext ==
    \/ \E b \in FormBuilt, mail \in BOOLEAN :
          AcceptForm(b.h, b.id, b.t, b.uploads, mail, b.tags)
    \/ \E f \in FormChecked : RefuseForm(f.h, f.uploads, f.tags)
    \/ SkipAzure
    \/ \E step \in {"client", "container", "upload_blob"} : AzureUploadFails(step)
    \/ \E lat \in Latency : AzureUpload(lat)
    \/ \E ok \in BOOLEAN : WaitPoll(ok)
    \/ WaitExpired
    \/ Dispatch
    \/ \E failAt \in {"get_blob_properties", "set_blob_metadata", "get_blob_tags", "none"} :
          UpdateMetadata(failAt)
    \/ \E ok \in BOOLEAN : UpdateTags(ok)
    \/ LocalSave
    \/ LocalSaveFails
    \/ \E sent \in BOOLEAN : SendRfpiEmail(sent)
    \/ \E sent \in BOOLEAN : SendGenericEmail(sent)
    \/ RespondUploaded

\* One request with any files and tags, followed through its handler against
\* a storage account on which Defender for Storage is not enabled.
FormSpec == Init /\ [][FormNext]_vars

\* Nothing of any request is in a store.
NothingPersisted ==
    /\ container = Empty
    /\ quarantine = Empty
    /\ localdir = Empty

\* C21: an /upload request whose tag set lacks the key "project" is answered
\* 400 ValidationFailed and nothing is persisted, whatever its other tags and
\* its files are.
C21_MissingProjectRefused ==
    (/\ Answered
     /\ req.handler = "upload"
     /\ "project" \notin DictKeys(req.user_tags.dict)) =>
        /\ response.code = 400
        /\ response.error = "ValidationFailed"
        /\ NothingPersisted

\* An /upload request with well-formed files and other tags, and no project
\* tag, has been answered.
C21_Witness ==
    /\ Answered
    /\ req.handler = "upload"
    /\ req.user_tags = Tags(<< << "proj-1", JsonStr("alpha") >> >>)
    /\ req.uploads = UploadsOf("upload", 0)
    /\ response.details = << "Missing required tag: project" >>

\* A part of the request that carries a file, by what detect_file_type
\* makes of its bytes.
Recognized(u) ==
    /\ u.filename # ""
    /\ detect_file_type(u.stream, u.filename).type # NoKind

Unrecognized(u) ==
    /\ u.filename # ""
    /\ detect_file_type(u.stream, u.filename).type = NoKind

\* The part is in the archive the request stored: a File Record of its field
\* and filename, and its bytes at the record's path.
Archived(u) ==
    \E i \in 1..Len(req.files) :
        /\ req.files[i].field = u.field
        /\ req.files[i].originalFileName = secure_filename(u.filename)
        /\ req.files[i].content = u.stream.bytes
        /\ ZipRead(req.zip_buffer, req.files[i].path) = u.stream.bytes

\* A warning entry names the part.
Warned(entries, u) ==
    \E i \in 1..Len(entries) :
        /\ entries[i].field = u.field
        /\ entries[i].filename = u.filename

\* A /submit request with files and a well-formed tag set.
SubmitScreened ==
    /\ Answered
    /\ req.handler = "submit"
    /\ req.uploads # <<>>
    /\ CheckRequestTags("submit", req.user_tags).outcome = "ok"

\* C22: in /submit every part with an unrecognized signature is left out of
\* the archive and named (field and filename) by a warning entry of the 201
\* answer, every recognized part is archived, and the answer is 400 only
\* when no part of the request is recognized.
C22_UnrecognizedSkippedWithWarning ==
    SubmitScreened =>
        /\ response.code = 201 =>
              \A i \in 1..Len(req.uploads) :
                 /\ Unrecognized(req.uploads[i]) =>
                       /\ Warned(response.warnings, req.uploads[i])
                       /\ ~Archived(req.uploads[i])
                 /\ Recognized(req.uploads[i]) => Archived(req.uploads[i])
        /\ response.code = 400 =>
              \A i \in 1..Len(req.uploads) : ~Recognized(req.uploads[i])

\* The archive of the current request is in the store its handler chose.
ArchivePersisted ==
    IF req.storage_location = "azure"
    THEN /\ OriginalPresent
         /\ container[req.blob_path].data = req.zip_buffer
    ELSE /\ req.zip_name \in DOMAIN localdir
         /\ localdir[req.zip_name] = req.zip_buffer

\* C29: the confirmation e-mail of /submit and /rfpi-submit is attempted only
\* once the archive is stored; whether it is sent, fails or has no recipient,
\* the stores are left as they are and the request is answered 201
\* "uploaded", with emailSent exactly when the e-mail was sent.
C29_MailFailureHarmless ==
    [][ /\ (hist'.emailTried /\ ~hist.emailTried) =>
              /\ pc = "stored" /\ pc' = "stored"
              /\ ArchivePersisted
              /\ UNCHANGED << container, quarantine, localdir, response >>
        /\ (pc = "stored" /\ pc' # "stored") =>
              /\ response'.code = 201
              /\ response'.status = "uploaded"
              /\ response'.emailSent = req.email_sent
              /\ ArchivePersisted' ]_vars

\* An /rfpi-submit request whose e-mail failed has been answered 201, and
\* its archive is stored.
C29_Witness ==
    /\ Answered
    /\ req.handler = "rfpi"
    /\ hist.emailTried
    /\ ~req.email_sent
    /\ response.code = 201
    /\ ~response.emailSent
    /\ ArchivePersisted

\* ================================================================ processor

MaxDeliveryCount == 2   \* deliveries after which the queue dead-letters a message

ZIP_CONTENT_TYPE == "application/zip"
PROCESSOR_VERSION == "1.0.0"
COMPLETED_EVENT == "USABC.Upload.ProcessingCompleted"

\* str.endswith(suffix)
EndsWith(chars, suffix) ==
    /\ Len(chars) >= Len(suffix)
    /\ SubSeq(chars, Len(chars) - Len(suffix) + 1, Len(chars)) = suffix

\* blob_url.endswith('.zip'): the URL ends with the blob's name
UrlEndsWithZip(url) == EndsWith(Spell(url.blob), << ".", "z", "i", "p" >>)

\* filename.lower().endswith('manifest.json')
IsManifestName(filename) ==
    EndsWith([i \in 1..Len(Spell(filename)) |-> LowerChar(Spell(filename)[i])],
             Spell("manifest.json"))

\* Path(filename).name
PathNameChars(filename) ==
    SubSeq(Spell(filename), LastIndex(Spell(filename), "/") + 1, Len(Spell(filename)))

PathName(filename) == Join(PathNameChars(filename))

\* json.dumps of a dict of strings, one token per brace, key and value
RECURSIVE JsonItems(_)
JsonItems(dict) ==
    IF dict = <<>> THEN <<>>
    ELSE << dict[1][1], dict[1][2] >> \o JsonItems(Tail(dict))

JsonDumps(dict) == << "{" >> \o JsonItems(dict) \o << "}" >>

\* json.loads(bytes.decode('utf-8')): ok is FALSE where it raises
\* JSONDecodeError or UnicodeDecodeError
JsonLoads(bytes) ==
    LET n == Len(bytes)
        wellFormed == /\ n >= 2
                      /\ bytes[1] = "{"
                      /\ bytes[n] = "}"
                      /\ n % 2 = 0
                      /\ \A i \in 2..(n - 1) : bytes[i] \notin NonUtf8 \cup {"{", "}"}
    IN  [ok   |-> wellFormed,
         dict |-> IF wellFormed
                  THEN [i \in 1..((n - 2) \div 2) |-> << bytes[2 * i], bytes[2 * i + 1] >>]
                  ELSE <<>>]

\* The manifest as the intake handlers serialize it into the archive.
ManifestJson(m) ==
    JsonDumps(<< << "submissionId", StrOfNat(m.submissionId) >>,
                 << "submittedAt", StrOfNat(m.submittedAt) >>,
                 << "scanStatus", m.scanStatus >> >>)

\* The bytes of an archive an intake handler built.
StoredZip(zip_buffer) ==
    [i \in 1..Len(zip_buffer) |->
        [name |-> zip_buffer[i].name,
         data |-> IF zip_buffer[i].name = "manifest.json"
                  THEN ManifestJson(zip_buffer[i].data)
                  ELSE zip_buffer[i].data]]

\* The keys of the dict extract_zip returns, in insertion order.
ExtractedNames(entries) ==
    LET firsts == SelectSeq([i \in 1..Len(entries) |->
                                [name  |-> entries[i].name,
                                 first |-> \A j \in 1..(i - 1) :
                                              entries[j].name # entries[i].name]],
                            LAMBDA e : e.first)
    IN  [i \in 1..Len(firsts) |-> firsts[i].name]

\* DocumentProcessor.read_manifest: found is FALSE where it returns None
read_manifest(entries) ==
    LET names == ExtractedNames(entries)
        hits  == SelectSeq(names, IsManifestName)
    IN  IF hits = <<>> THEN [found |-> FALSE, dict |-> <<>>]
        ELSE [found |-> JsonLoads(extract_zip(entries)[hits[1]]).ok,
              dict  |-> JsonLoads(extract_zip(entries)[hits[1]]).dict]

\* f"processed/{submission_id}/{clean_filename}"
ProcessedPath(submission_id, filename) ==
    << "processed", submission_id, PathName(filename) >>

\* DocumentProcessor.upload_processed_files: the processed store after the
\* first count files of the dict are uploaded (overwrite=True).
RECURSIVE UploadProcessed(_, _, _, _, _, _, _)
UploadProcessed(store, names, files, count, submission_id, url, t) ==
    IF count = 0 THEN store
    ELSE Put(UploadProcessed(store, names, files, count - 1, submission_id, url, t),
             ProcessedPath(submission_id, names[count]),
             [data |-> files[names[count]],
              metadata |-> [original_blob_url |-> url,
                            original_submission_id |-> submission_id,
                            processed_timestamp |-> t,
                            processor_version |-> PROCESSOR_VERSION]])

\* The event emit_processed_event sends.
ProcessedEvent(submission_id, manifest, uploaded_files, url, t) ==
    [eventType |-> COMPLETED_EVENT,
     subject |-> << "processing", submission_id >>,
     submissionId |-> submission_id,
     manifestData |-> manifest,
     processedFiles |-> uploaded_files,
     fileCount |-> Len(uploaded_files),
     originalBlobUrl |-> url,
     processedTimestamp |-> t,
     status |-> "completed"]

\* manifest.get("submissionId"); "" stands for None as well
SubmissionIdOf(dict) ==
    IF "submissionId" \in DictKeys(dict) THEN DictGet(dict, "submissionId") ELSE ""

\* What one call of process_blob_event did.
Run(success, skipped, downloaded, store, uploaded, published, submission_id, t) ==
    [success |-> success, skipped |-> skipped, downloaded |-> downloaded,
     store |-> store, uploaded |-> uploaded, published |-> published,
     submission_id |-> submission_id, t |-> t]

\* Steps 4 to 6 of process_blob_event; fail names the call that raises.
Republish(data, names, files, manifest, submission_id, store, grid, t, fail) ==
    IF fail = "upload"
    THEN Run(FALSE, FALSE, TRUE,
             UploadProcessed(store, names, files, Len(names) - 1, submission_id,
                             data.url, t),
             <<>>, <<>>, submission_id, t)
    ELSE Run(TRUE, FALSE, TRUE,
             UploadProcessed(store, names, files, Len(names), submission_id,
                             data.url, t),
             [i \in 1..Len(names) |-> ProcessedPath(submission_id, names[i])],
             IF grid /\ fail # "send"
             THEN << ProcessedEvent(submission_id, manifest,
                        [i \in 1..Len(names) |-> ProcessedPath(submission_id, names[i])],
                        data.url, t) >>
             ELSE <<>>,
             submission_id, t)

\* DocumentProcessor.process_blob_event on event_data['data'], with the blob
\* its url names, the processed store, and whether Event Grid is configured.
process_blob_event_UrlSuffixOnly(data, blob, store, grid, t, fail) ==
    IF ~UrlEndsWithZip(data.url)
    THEN Run(TRUE, TRUE, FALSE, store, <<>>, <<>>, "", t)
    ELSE IF fail = "download" \/ ~blob.present \/ ~blob.is_zip \/ blob.entries = <<>>
    THEN Run(FALSE, FALSE, TRUE, store, <<>>, <<>>, "", t)
    ELSE IF \/ ~read_manifest(blob.entries).found
            \/ read_manifest(blob.entries).dict = <<>>
            \/ SubmissionIdOf(read_manifest(blob.entries).dict) = ""
    THEN Run(FALSE, FALSE, TRUE, store, <<>>, <<>>, "", t)
    ELSE Republish(data, ExtractedNames(blob.entries), extract_zip(blob.entries),
                   read_manifest(blob.entries).dict,
                   SubmissionIdOf(read_manifest(blob.entries).dict), store, grid, t, fail)

process_blob_event(data, blob, store, grid, t, fail) ==
    IF ~UrlEndsWithZip(data.url) /\ data.contentType # ZIP_CONTENT_TYPE
    THEN Run(TRUE, TRUE, FALSE, store, <<>>, <<>>, "", t)
    ELSE IF fail = "download" \/ ~blob.present \/ ~blob.is_zip \/ blob.entries = <<>>
    THEN Run(FALSE, FALSE, TRUE, store, <<>>, <<>>, "", t)
    ELSE IF \/ ~read_manifest(blob.entries).found
            \/ read_manifest(blob.entries).dict = <<>>
            \/ SubmissionIdOf(read_manifest(blob.entries).dict) = ""
    THEN Run(FALSE, FALSE, TRUE, store, <<>>, <<>>, "", t)
    ELSE Republish(data, ExtractedNames(blob.entries), extract_zip(blob.entries),
                   read_manifest(blob.entries).dict,
                   SubmissionIdOf(read_manifest(blob.entries).dict), store, grid, t, fail)

\* The queue and the processor before the message's first delivery.
NoRun == Run(FALSE, FALSE, FALSE, Empty, <<>>, <<>>, "", 0)
QueueStart ==
    [done |-> FALSE, state |-> "active", deliveries |-> 0,
     completes |-> 0, abandons |-> 0, dead_letters |-> 0, downloads |-> 0,
     store |-> Empty, events |-> <<>>, run |-> NoRun]

\* receiver.complete_message / abandon_message after process_blob_event
Settle(out, run) ==
    [out EXCEPT !.deliveries = @ + 1,
                !.state = IF run.success THEN "completed" ELSE "active",
                !.completes = IF run.success THEN @ + 1 ELSE @,
                !.abandons = IF run.success THEN @ ELSE @ + 1,
                !.downloads = IF run.downloaded THEN @ + 1 ELSE @,
                !.store = run.store,
                !.events = @ \o run.published,
                !.run = run]

\* A receive loop whose only except clause is the general one: a body that
\* does not parse is abandoned like any other failure.
ReceiveMessage_AbandonsInvalid(t, fail) ==
    /\ input.fn = "processor"
    /\ output.state = "active"
    /\ output.deliveries < MaxDeliveryCount
    /\ output' =
         CASE input.message.body \in {"invalid", "nodata", "array"} ->
                [output EXCEPT !.deliveries = @ + 1, !.abandons = @ + 1, !.run = NoRun]
           [] input.message.body = "event" ->
                Settle(output, process_blob_event(input.message.data, input.blob,
                                                  output.store, input.grid, t, fail))
    /\ UNCHANGED input
    /\ UNCHANGED handlerVars

\* One pass of the receive loop of DocumentProcessor.start for one delivery
\* of the message: parse, process, settle.
ReceiveMessage(t, fail) ==
    /\ input.fn = "processor"
    /\ output.state = "active"
    /\ output.deliveries < MaxDeliveryCount
    /\ output' =
         CASE input.message.body = "invalid" ->
                [output EXCEPT !.deliveries = @ + 1, !.state = "dead-lettered",
                               !.dead_letters = @ + 1, !.run = NoRun]
           [] input.message.body \in {"nodata", "array"} ->
                [output EXCEPT !.deliveries = @ + 1, !.abandons = @ + 1, !.run = NoRun]
           [] input.message.body = "event" ->
                Settle(output, process_blob_event(input.message.data, input.blob,
                                                  output.store, input.grid, t, fail))
    /\ UNCHANGED input
    /\ UNCHANGED handlerVars

\* The queue moves a message that used up its deliveries to the dead-letter
\* queue.
QueueDeadLetters ==
    /\ input.fn = "processor"
    /\ output.state = "active"
    /\ output.deliveries >= MaxDeliveryCount
    /\ output' = [output EXCEPT !.state = "dead-lettered"]
    /\ UNCHANGED input
    /\ UNCHANGED handlerVars

Entry(name, data) == [name |-> name, data |-> data]
IdManifest == JsonDumps(<< << "submissionId", "1" >> >>)

\* Archives in the container: one an intake handler built, and others put
\* there: without manifest, with a manifest that does not parse, is empty
\* or has no submissionId, with no entries, with directories, and with the
\* manifest under other names.
ProcessorArchives ==
    { StoredZip(BuildArchive(1, 1, FilesOf("submit", 0), <<>>).zip_buffer),
      << Entry("a/r.pdf", PdfBytes(0, 1)) >>,
      << Entry("a/r.pdf", PdfBytes(0, 1)), Entry("manifest.json", << "x11" >>) >>,
      << Entry("a/r.pdf", PdfBytes(0, 1)),
         Entry("manifest.json", JsonDumps(<< << "submittedAt", "1" >> >>)) >>,
      << Entry("a/r.pdf", PdfBytes(0, 1)), Entry("manifest.json", JsonDumps(<< >>)) >>,
      << Entry("a/r.pdf", PdfBytes(0, 1)),
         Entry("manifest.json", JsonDumps(<< << "submissionId", "" >> >>)) >>,
      << >>,
      << Entry("a/r.pdf", PdfBytes(0, 1)), Entry("b/r.pdf", PdfBytes(1, 1)),
         Entry("manifest.json", IdManifest) >>,
      << Entry("a/r.pdf", PdfBytes(0, 1)), Entry("old-manifest.json", IdManifest) >>,
      << Entry("a/r.pdf", PdfBytes(0, 1)), Entry("MANIFEST.JSON", IdManifest) >> }

Url(blob) == [container |-> "project-artifacts", blob |-> blob]

ProcessorMessages ==
    { [body |-> b, data |-> [url |-> Url("s1.zip"), contentType |-> ""]] :
        b \in {"invalid", "nodata", "array"} }
    \cup { [body |-> "event", data |-> [url |-> Url(n), contentType |-> ct]] :
             n \in {"s1.zip", "s1.bin"},
             ct \in {"", ZIP_CONTENT_TYPE, "application/pdf"} }

\* The blob the message's url names: absent, no zip file, or an archive with
\* the scan status its index tag has at the time.
ProcessorBlobs ==
    { [present |-> FALSE, is_zip |-> FALSE, entries |-> <<>>, scanStatus |-> "pending"],
      [present |-> TRUE, is_zip |-> FALSE, entries |-> <<>>, scanStatus |-> "clean"] }
    \cup { [present |-> TRUE, is_zip |-> TRUE, entries |-> a, scanStatus |-> st] :
             a \in ProcessorArchives, st \in {"pending", "clean", "malicious"} }

ProcessorInit ==
    /\ HandlersIdle
    /\ input \in { [fn |-> "processor", message |-> m, blob |-> b, grid |-> g] :
                     m \in ProcessorMessages, b \in ProcessorBlobs, g \in BOOLEAN }
    /\ output = QueueStart

ProcessorNext ==
    \/ \E t \in Times, fail \in {"none", "download", "upload", "send"} :
          ReceiveMessage(t, fail)
    \/ QueueDeadLetters

\* One message of the queue, delivered to the processor until it is settled.
ProcessorSpec == ProcessorInit /\ [][ProcessorNext]_vars

\* The message is a parsed event and has been delivered at least once.
EventDelivered ==
    /\ input.fn = "processor"
    /\ input.message.body = "event"
    /\ output.deliveries >= 1

\* The processor has done nothing but acknowledge the message.
AcknowledgedOnly ==
    /\ output.downloads = 0
    /\ output.store = Empty
    /\ output.events = <<>>
    /\ output.state = "completed"
    /\ output.completes = 1
    /\ output.abandons = 0
    /\ output.dead_letters = 0

\* C23 as stated: a message whose object URL does not end in .zip causes no
\* download, no upload and no event, and is completed, never abandoned or
\* dead-lettered.
C23_NonZipUrlAcknowledged ==
    (EventDelivered /\ ~UrlEndsWithZip(input.message.data.url)) => AcknowledgedOnly

\* C23 amended: the message is only acknowledged when its URL does not end
\* in .zip and its content type is not application/zip; with either of the
\* two it is downloaded.
C23_NonZipObjectAcknowledged ==
    /\ (/\ EventDelivered
        /\ ~UrlEndsWithZip(input.message.data.url)
        /\ input.message.data.contentType # ZIP_CONTENT_TYPE) => AcknowledgedOnly
    /\ (/\ EventDelivered
        /\ \/ UrlEndsWithZip(input.message.data.url)
           \/ input.message.data.contentType = ZIP_CONTENT_TYPE) => output.downloads >= 1

\* A message for s1.bin of type application/pdf was completed untouched
\* although an archive lies at its URL.
C23_Witness ==
    /\ EventDelivered
    /\ input.message.data.url = Url("s1.bin")
    /\ input.message.data.contentType = "application/pdf"
    /\ input.blob.present /\ input.blob.is_zip
    /\ AcknowledgedOnly

\* C24: a message whose body is not valid JSON is dead-lettered by the
\* processor on its first delivery and only then; it is never abandoned or
\* completed, and nothing is downloaded, uploaded or published for it.
C24_InvalidJsonDeadLettered ==
    (input.fn = "processor" /\ input.message.body = "invalid") =>
        /\ output.abandons = 0
        /\ output.completes = 0
        /\ output.downloads = 0
        /\ output.store = Empty
        /\ output.events = <<>>
        /\ output.deliveries <= 1
        /\ output.dead_letters = output.deliveries
        /\ output.deliveries = 1 => output.state = "dead-lettered"

\* A message with an unparsable body has been delivered and sits in the
\* dead-letter queue.
C24_Witness ==
    /\ input.fn = "processor"
    /\ input.message.body = "invalid"
    /\ output.deliveries = 1
    /\ output.dead_letters = 1
    /\ output.state = "dead-lettered"

\* The entries of the archive that are a file called manifest.json, in any
\* directory and in any case.
ManifestEntries(entries) ==
    { i \in 1..Len(entries) :
        [k \in 1..Len(PathNameChars(entries[i].name)) |->
            LowerChar(PathNameChars(entries[i].name)[k])] = Spell("manifest.json") }

\* The archive has no manifest.json, or its manifest does not parse or has
\* no submissionId.
ManifestUnusable(entries) ==
    \/ ManifestEntries(entries) = {}
    \/ \E i \in ManifestEntries(entries) :
          \/ ~JsonLoads(entries[i].data).ok
          \/ "submissionId" \notin DictKeys(JsonLoads(entries[i].data).dict)

\* The message is an event for an object the processor downloads, and the
\* object is an archive.
ArchiveDelivered ==
    /\ EventDelivered
    /\ \/ UrlEndsWithZip(input.message.data.url)
       \/ input.message.data.contentType = ZIP_CONTENT_TYPE
    /\ input.blob.present
    /\ input.blob.is_zip

\* C25: for an archive without manifest.json, with a manifest that does not
\* parse, or with a manifest without submissionId, nothing is uploaded to
\* the processed store and no event is published; every delivery of the
\* message is abandoned, none completed, and the message leaves the queue
\* only for the dead-letter queue, after the last delivery the queue allows.
C25_UnusableManifestAbandoned ==
    (ArchiveDelivered /\ ManifestUnusable(input.blob.entries)) =>
        /\ output.store = Empty
        /\ output.events = <<>>
        /\ output.completes = 0
        /\ output.abandons = output.deliveries
        /\ output.dead_letters = 0
        /\ output.state \in {"active", "dead-lettered"}
        /\ output.state = "dead-lettered" => output.deliveries = MaxDeliveryCount

\* The message was completed by a run that republished files.
CompletedAfterRepublishing ==
    /\ EventDelivered
    /\ output.state = "completed"
    /\ output.run.success
    /\ output.run.uploaded # <<>>

\* C26: when a message is completed after its archive's files were
\* republished, that run has published exactly one ProcessingCompleted event,
\* with the run's submissionId, fileCount the number of files the run
\* uploaded, and status "completed".
C26_OneCompletionEvent ==
    CompletedAfterRepublishing =>
        /\ Len(output.run.published) = 1
        /\ output.run.published[1].eventType = COMPLETED_EVENT
        /\ output.run.published[1].submissionId = output.run.submission_id
        /\ output.run.published[1].fileCount = Len(output.run.uploaded)
        /\ output.run.published[1].status = "completed"

\* The message's last delivery ran process_blob_event to success on an archive.
ProcessedArchive ==
    /\ ArchiveDelivered
    /\ output.run.success
    /\ ~output.run.skipped

\* C27: after process_blob_event succeeded on an archive, the processed
\* store holds for every extracted entry an object under
\* processed/<submissionId>/ with the entry's bytes, whose metadata has the
\* original object's URL, the time of processing and the processor version.
C27_EveryEntryRepublished ==
    ProcessedArchive =>
        \A name \in DOMAIN extract_zip(input.blob.entries) :
           \E path \in DOMAIN output.store :
              /\ path[1] = "processed"
              /\ path[2] = output.run.submission_id
              /\ output.store[path].data = extract_zip(input.blob.entries)[name]
              /\ output.store[path].metadata.original_blob_url = input.message.data.url
              /\ output.store[path].metadata.processed_timestamp = output.run.t
              /\ output.store[path].metadata.processor_version = PROCESSOR_VERSION

\* C30: whenever the processed store holds contents of the archive or a
\* completion event was published for it, the archive's scan verdict is
\* clean: nothing of a pending or malicious archive is republished.
C30_OnlyCleanRepublished ==
    (/\ input.fn = "processor"
     /\ \/ output.store # Empty
        \/ output.events # <<>>) =>
        input.blob.scanStatus = "clean"

\* ------------------------------------------------- two requests interleaved

\* The identifier uuid4 generated for the second request; the first
\* request has another one.
OtherId == NumIds

\* The second request is the same handler's, received at the same instant
\* as the first; input holds its locals, output its position.
OtherReceive ==
    /\ pc # "idle"
    /\ input = NoInput
    /\ \E b \in BuiltRequests :
          /\ b.content = 0
          /\ b.req.handler = req.handler
          /\ b.req.submission_id = OtherId
          /\ b.req.now_et = req.now_et
          /\ b.req.user_tags = PlainTags(req.handler)
          /\ input' = [fn |-> "request", req |-> b.req]
    /\ output' = [done |-> FALSE, pc |-> "store"]
    /\ UNCHANGED handlerVars

\* The second request's upload_blob.
OtherUpload ==
    /\ input.fn = "request"
    /\ output.pc = "store"
    /\ azureConfigured
    /\ ~UploadRefused(container, input.req.blob_path)
    /\ container' = Put(container, input.req.blob_path, NewBlob(input.req))
    /\ output' = [output EXCEPT !.pc = "wait"]
    /\ UNCHANGED << azureConfigured, pc, req, wait, quarantine, localdir,
                    response, hist, served >>
    /\ UNCHANGED input

\* The second request's local fallback.
OtherLocalSave ==
    /\ input.fn = "request"
    /\ output.pc = "store"
    /\ localdir' = Put(localdir, input.req.zip_name, input.req.zip_buffer)
    /\ output' = [output EXCEPT !.pc = "done", !.done = TRUE]
    /\ UNCHANGED << azureConfigured, pc, req, wait, container, quarantine,
                    response, hist, served >>
    /\ UNCHANGED input

\* The second request's quarantine_blob, run to its end: the copy, its
\* metadata and tags, and the deletion of the original.
OtherQuarantine(t) ==
    /\ input.fn = "request"
    /\ output.pc = "wait"
    /\ t \in Times
    /\ input.req.blob_path \in DOMAIN container
    /\ quarantine' = Put(quarantine, QuarantineName(t, input.req.blob_path),
                         [NewCopy(input.req.blob_path) EXCEPT
                             !.data = container[input.req.blob_path].data,
                             !.copy = "success",
                             !.originalPath = input.req.blob_path,
                             !.quarantinedReason = MALICIOUS,
                             !.quarantined = TRUE])
    /\ container' = Remove(container, input.req.blob_path)
    /\ output' = [output EXCEPT !.pc = "done", !.done = TRUE]
    /\ UNCHANGED << azureConfigured, pc, req, wait, localdir, response, hist, served >>
    /\ UNCHANGED input

\* The second request's archive is not malicious: it is answered 201.
OtherRespond ==
    /\ input.fn = "request"
    /\ output.pc = "wait"
    /\ output' = [output EXCEPT !.pc = "done", !.done = TRUE]
    /\ UNCHANGED handlerVars
    /\ UNCHANGED input

PairNext ==
    \/ \E h \in Handlers, id \in Ids \ {OtherId}, t \in Times, c \in Contents,
          mail \in BOOLEAN :
          Receive(h, id, t, c, mail, PlainTags(h))
    \/ OtherReceive
    \/ OtherUpload
    \/ OtherLocalSave
    \/ \E t \in Times : OtherQuarantine(t)
    \/ OtherRespond
    \/ SkipAzure
    \/ \E step \in {"client", "container", "upload_blob"} : AzureUploadFails(step)
    \/ \E lat \in Latency : AzureUpload(lat)
    \/ \E ok \in BOOLEAN : WaitPoll(ok)
    \/ WaitExpired
    \/ Dispatch
    \/ \E v \in DefenderValues : DefenderScan(req.blob_path, v)
    \/ \E t \in Times, ok \in BOOLEAN, lat \in Latency : QuarantineStart(t, ok, lat)
    \/ \E ok \in BOOLEAN : QuarantinePoll(ok)
    \/ QuarantineExpired
    \/ \E failAt \in {"set_blob_metadata", "set_blob_tags", "delete_blob", "none"} :
          QuarantineFinish(failAt)
    \/ \E name \in QuarantineNames, outcome \in {"success", "failed", "aborted"} :
          CopyProgress(name, outcome)
    \/ RespondMalware
    \/ \E failAt \in {"get_blob_properties", "set_blob_metadata", "get_blob_tags", "none"} :
          UpdateMetadata(failAt)
    \/ \E ok \in BOOLEAN : UpdateTags(ok)
    \/ LocalSave
    \/ LocalSaveFails
    \/ \E sent \in BOOLEAN : SendRfpiEmail(sent)
    \/ \E sent \in BOOLEAN : SendGenericEmail(sent)
    \/ RespondUploaded

\* Two intake requests with distinct identifiers, their steps interleaved.
PairSpec == Init /\ [][PairNext]_vars

\* What the stores hold at the paths a request writes to: its blob path,
\* its local file and its quarantine names.
ObjectsOf(r) ==
    << { container[p] : p \in {r.blob_path} \cap DOMAIN container },
       { localdir[n] : n \in {r.zip_name} \cap DOMAIN localdir },
       [t \in Times |->
           { quarantine[n] :
               n \in {QuarantineName(t, r.blob_path)} \cap DOMAIN quarantine }] >>

\* The paths of the two requests are different.
PathsDisjoint(r1, r2) ==
    /\ r1.blob_path # r2.blob_path
    /\ r1.zip_name # r2.zip_name
    /\ \A t1, t2 \in Times :
          QuarantineName(t1, r1.blob_path) # QuarantineName(t2, r2.blob_path)

C31_MaliciousOutOfReach ==
    (Answered /\ req.scan_status = MALICIOUS) => ~OriginalPresent


\* ------------------------------------------------ the recorded scan status

\* A recorded status keeps its value or leaves "pending" for a verdict.
Forward(before, after) ==
    \/ after = before
    \/ before = "pending" /\ after \in {"clean", "malicious"}

\* C32: the scanStatus metadata and the scanStatus index tag of a stored
\* archive are "pending" at upload and the response's scanStatus is a value
\* they can still reach; each changes only from "pending" to "clean" or
\* "malicious", and a response once given keeps its scanStatus.
C32_StatusOnlyForward ==
    [][ /\ \A p \in BlobPaths :
              p \in DOMAIN container' =>
                 IF p \in DOMAIN container
                 THEN /\ Forward(container[p].metadata.scanStatus,
                                 container'[p].metadata.scanStatus)
                      /\ Forward(container[p].tags.scanStatus,
                                 container'[p].tags.scanStatus)
                 ELSE /\ container'[p].metadata.scanStatus = "pending"
                      /\ container'[p].tags.scanStatus = "pending"
        /\ (response.code \in {201, 403}) => response'.scanStatus = response.scanStatus
        /\ (response.code = 0 /\ response'.code \in {201, 403}) =>
              /\ Forward("pending", response'.scanStatus)
              /\ OriginalPresent =>
                    /\ Forward(container[req.blob_path].metadata.scanStatus,
                               response'.scanStatus)
                    /\ Forward(container[req.blob_path].tags.scanStatus,
                               response'.scanStatus) ]_vars

\* A clean verdict recorded in the metadata, in the index tag and in the
\* response.
C32_Witness ==
    /\ Answered
    /\ response.code = 201
    /\ response.scanStatus = "clean"
    /\ OriginalPresent
    /\ container[req.blob_path].metadata.scanStatus = "clean"
    /\ container[req.blob_path].tags.scanStatus = "clean"


\* ------------------------------------------------- the request boundary

\* The positions of a handler inside its durable-storage try block.
InStorageBlock ==
    pc \in {"store", "wait", "scanned", "quarantine", "copy_wait", "copy_done",
            "respond403", "update", "update_tags"}

\* C33: every request a handler has taken up is answered, and answered once:
\* the handler's position is "done" exactly when a response exists and a
\* response never changes. A 500 is UploadFailed with a message and comes
\* from a step outside the durable-storage block; no step inside the block
\* answers 500, and a failed durable write leads to the local fallback.
C33_AlwaysOneResponse ==
    /\ [](pc = "done" <=> Answered)
    /\ [][ /\ Answered => response' = response
           /\ (response'.code = 500 /\ ~Answered) =>
                 /\ ~InStorageBlock
                 /\ response'.error = "UploadFailed"
                 /\ response'.details # <<>>
           /\ (hist'.azureFailed /\ ~hist.azureFailed) =>
                 /\ ~Answered'
                 /\ pc' = "local" ]_vars
    /\ (pc # "idle") ~> Answered

\* The durable write failed, the local write raised, and the request was
\* answered 500.
C33_Witness ==
    /\ Answered
    /\ response.code = 500
    /\ response.error = "UploadFailed"
    /\ hist.azureFailed
    /\ localdir = Empty


\* --------------------------------------------- the scanner's verdict tag

\* C34: a tag the scanner has attached to a stored archive is still on it
\* after every step that leaves the archive in place, those of
\* update_blob_scan_status included; only the scanner replaces its
\* "No scan result" by a verdict.
C34_ScannerTagKept ==
    [][ \A p \in BlobPaths :
           (/\ p \in DOMAIN container
            /\ p \in DOMAIN container'
            /\ container[p].tags.defender # "") =>
               \/ container'[p].tags.defender = container[p].tags.defender
               \/ /\ container[p].tags.defender = "No scan result"
                  /\ container'[p].tags.defender # "" ]_vars


\* ------------------------------------------------ the wait for a verdict

\* ceil(timeout / SCAN_POLL_INTERVAL)
MaxPolls == (SCAN_TIMEOUT + SCAN_POLL_INTERVAL - 1) \div SCAN_POLL_INTERVAL

\* C35: when wait_for_scan_result has returned it has polled at most
\* ceil(timeout / SCAN_POLL_INTERVAL) times, has slept once between two
\* polls and not after the last one, and its status is clean, malicious or
\* pending.
C35_BoundedPollsNoTrailingSleep ==
    (pc = "scanned") =>
        /\ wait.attempts <= MaxPolls
        /\ wait.sleeps = wait.attempts - 1
        /\ req.scan_status \in {CLEAN, MALICIOUS, PENDING}


\* ------------------------------------------------ the persisted archive

\* scan.scanStatus of the manifest.json inside an archive
EmbeddedScanStatus(zip) == ZipRead(zip, "manifest.json").scanStatus

\* C36: the bytes of an archive in durable storage or in the local directory
\* are the same after every step that leaves it in place, and the manifest
\* inside every stored archive, quarantine copies included, says
\* scanStatus "pending".
C36_ArchiveBytesFixed ==
    /\ [](/\ \A p \in DOMAIN container :
                EmbeddedScanStatus(container[p].data) = "pending"
          /\ \A n \in DOMAIN localdir :
                EmbeddedScanStatus(localdir[n]) = "pending"
          /\ \A q \in DOMAIN quarantine :
                quarantine[q].data # <<>> =>
                   EmbeddedScanStatus(quarantine[q].data) = "pending")
    /\ [][ /\ \A p \in DOMAIN container \cap DOMAIN container' :
                container'[p].data = container[p].data
           /\ \A n \in DOMAIN localdir \cap DOMAIN localdir' :
                localdir'[n] = localdir[n]
           /\ \A q \in DOMAIN quarantine \cap DOMAIN quarantine' :
                quarantine[q].data # <<>> =>
                   quarantine'[q].data = quarantine[q].data ]_vars

\* A clean verdict recorded in metadata, tag and response while the stored
\* archive is the one that was put, its manifest saying "pending".
C36_Witness ==
    /\ Answered
    /\ response.code = 201
    /\ response.scanStatus = "clean"
    /\ OriginalPresent
    /\ container[req.blob_path].metadata.scanStatus = "clean"
    /\ container[req.blob_path].tags.scanStatus = "clean"
    /\ container[req.blob_path].data = req.zip_buffer
    /\ EmbeddedScanStatus(container[req.blob_path].data) = "pending"


\* ------------------------------------------- e-mail and malicious verdicts

\* C37: the sender is called only once the archive is stored and the scan
\* stage is over, only by a request whose wait did not return malicious, and
\* only on the way to a 201; a request answered 403 has called no sender and
\* reports no e-mail.
C37_NoMailForMalicious ==
    /\ hist.emailTried =>
          /\ pc \in {"stored", "done"}
          /\ req.scan_status # MALICIOUS
          /\ hist.wroteAzure \/ hist.wroteLocal
          /\ Answered => response.code = 201
    /\ (Answered /\ response.code # 201) =>
          /\ ~hist.emailTried
          /\ ~req.email_sent
          /\ ~response.emailSent

\* A request of a handler that sends e-mail, answered 403 after a malicious
\* verdict.
C37_Witness ==
    /\ Answered
    /\ response.code = 403
    /\ req.scan_status = MALICIOUS
    /\ SendsEmail(req)
    /\ ~hist.emailTried


\* ------------------------------------------- one message, several deliveries

MaxRuns == 3   \* deliveries of the one message that are followed
Workers == {1, 2}

\* A worker between two messages.
WorkerIdle == [pc |-> "idle", next |-> 0, t |-> 0]

\* What process_blob_event decides before it uploads: the outcome of the run
\* against an empty store with every call succeeding.
Planned(in) ==
    process_blob_event(in.message.data, in.blob, Empty, FALSE, 1, "none")

\* The names and the files extract_zip hands to upload_processed_files.
PlannedNames(in) == ExtractedNames(in.blob.entries)

RedeliveryInit ==
    /\ HandlersIdle
    /\ input \in { [fn |-> "redelivery", message |-> m, blob |-> b] :
                     m \in { m \in ProcessorMessages : m.body = "event" },
                     b \in ProcessorBlobs }
    /\ output = [runs |-> 0, completed |-> 0, store |-> Empty,
                 worker |-> [w \in Workers |-> WorkerIdle]]

\* The message is delivered to a worker (again, after an abandon, or to a
\* second worker when its lock ran out): process_blob_event up to the
\* call of upload_processed_files. A run that skips the message or fails
\* before that call ends here.
Deliver(w, t) ==
    /\ input.fn = "redelivery"
    /\ output.runs < MaxRuns
    /\ output.worker[w].pc = "idle"
    /\ output' =
          IF Planned(input).uploaded = <<>>
          THEN [output EXCEPT !.runs = @ + 1]
          ELSE [output EXCEPT !.runs = @ + 1,
                              !.worker[w] = [pc |-> "upload", next |-> 1, t |-> t]]
    /\ UNCHANGED input
    /\ UNCHANGED handlerVars

\* One pass of the loop of upload_processed_files: upload_blob with
\* overwrite=True. After the last file the run returns True and the message
\* is completed.
UploadOne(w) ==
    /\ input.fn = "redelivery"
    /\ output.worker[w].pc = "upload"
    /\ LET names == PlannedNames(input)
           n == output.worker[w].next
           id == Planned(input).submission_id
           blob == [data |-> extract_zip(input.blob.entries)[names[n]],
                    metadata |-> [original_blob_url |-> input.message.data.url,
                                  original_submission_id |-> id,
                                  processed_timestamp |-> output.worker[w].t,
                                  processor_version |-> PROCESSOR_VERSION]]
       IN  output' =
             [output EXCEPT
                !.store = Put(output.store, ProcessedPath(id, names[n]), blob),
                !.worker[w] = IF n = Len(names) THEN WorkerIdle
                              ELSE [@ EXCEPT !.next = n + 1],
                !.completed = IF n = Len(names) THEN @ + 1 ELSE @]
    /\ UNCHANGED input
    /\ UNCHANGED handlerVars

\* upload_blob raises: process_blob_event returns False and the message is
\* abandoned.
UploadRaises(w) ==
    /\ input.fn = "redelivery"
    /\ output.worker[w].pc = "upload"
    /\ output' = [output EXCEPT !.worker[w] = WorkerIdle]
    /\ UNCHANGED input
    /\ UNCHANGED handlerVars

RedeliveryNext ==
    \/ \E w \in Workers, t \in Times : Deliver(w, t)
    \/ \E w \in Workers : UploadOne(w)
    \/ \E w \in Workers : UploadRaises(w)

\* One message delivered up to MaxRuns times to two workers of the queue.
RedeliverySpec == RedeliveryInit /\ [][RedeliveryNext]_vars

\* The bytes of every object of a processed store, by path.
ContentsOf(store) == [p \in DOMAIN store |-> store[p].data]

\* C38: once the message has been processed to the end at least once and no
\* worker is busy with it, the processed store holds the objects, by path
\* and bytes, that one processing of the message leaves.
C38_ReprocessingSameStore ==
    (/\ input.fn = "redelivery"
     /\ output.completed >= 1
     /\ \A w \in Workers : output.worker[w].pc = "idle") =>
        ContentsOf(output.store) = ContentsOf(Planned(input).store)


\* ------------------------------------------------- settling a message

\* The receive loop before its first pass.
LoopStart ==
    [passes |-> 0, alive |-> TRUE, queued |-> TRUE, parsed |-> FALSE,
     returned |-> "none", calls |-> <<>>, store |-> Empty]

SettleInit ==
    /\ HandlersIdle
    /\ input \in { [fn |-> "settle", message |-> m, blob |-> b] :
                     m \in ProcessorMessages, b \in ProcessorBlobs }
    /\ output = LoopStart

\* The settlement calls of one pass of the loop body. first is the call the
\* pass makes; in_try says that it stands inside the try block, where an
\* exception it raises reaches "except Exception" and its abandon_message.
SettlementCalls(first, in_try, first_ok) ==
    IF first_ok \/ ~in_try THEN << first >> ELSE << first, "abandon" >>

\* One pass of "for message in receiver" in DocumentProcessor.start with the
\* outcomes of its settlement calls: first_ok and second_ok are FALSE where
\* the call raises (the lock of the message has run out, the connection is
\* lost). An exception that leaves the loop body ends start().
TakeMessage(t, fail, first_ok, second_ok) ==
    /\ input.fn = "settle"
    /\ output.alive
    /\ output.queued
    /\ output.passes < MaxDeliveryCount
    /\ LET body == input.message.body
           parsed == body # "invalid"
           run == IF body = "event"
                  THEN process_blob_event(input.message.data, input.blob,
                                          output.store, FALSE, t, fail)
                  ELSE [NoRun EXCEPT !.store = output.store]
           returned == CASE body = "event" -> IF run.success THEN "True" ELSE "False"
                         [] body = "nodata" -> "False"
                         [] OTHER -> "none"
           first == CASE ~parsed -> "dead_letter"
                      [] returned = "True" -> "complete"
                      [] OTHER -> "abandon"
           in_try == returned # "none"
           calls == SettlementCalls(first, in_try, first_ok)
       IN  output' = [passes |-> output.passes + 1,
                      alive |-> first_ok \/ (in_try /\ second_ok),
                      queued |-> ~(first_ok /\ first \in {"complete", "dead_letter"}),
                      parsed |-> parsed,
                      returned |-> returned,
                      calls |-> calls,
                      store |-> run.store]
    /\ UNCHANGED input
    /\ UNCHANGED handlerVars

SettleNext ==
    \E t \in Times, fail \in {"none", "download", "upload"},
       first_ok \in BOOLEAN, second_ok \in BOOLEAN :
          TakeMessage(t, fail, first_ok, second_ok)

\* One message in the receive loop, its settlement calls succeeding or not.
SettleSpec == SettleInit /\ [][SettleNext]_vars

\* C39: in the pass for a delivered message exactly one settlement operation
\* is invoked: complete exactly when process_blob_event returned True,
\* dead-letter exactly when the body is no valid JSON, abandon otherwise.
C39_OneSettlementPerMessage ==
    (input.fn = "settle" /\ output.passes >= 1) =>
        /\ Len(output.calls) = 1
        /\ output.calls[1] = "complete" <=> output.returned = "True"
        /\ output.calls[1] = "dead_letter" <=> ~output.parsed
        /\ output.calls[1] \in {"complete", "dead_letter", "abandon"}


\* ------------------------------------------------- the local fallback

\* The positions of a handler in the scan, quarantine and update stages.
InScanStages ==
    pc \in {"wait", "scanned", "quarantine", "copy_wait", "copy_done",
            "respond403", "update", "update_tags"}

\* C40: the scan, quarantine and update stages are entered only after a
\* successful durable upload; a request whose archive went to the local
\* directory was never scanned, quarantined or updated, and every response
\* with storageMode "local" is a 201 with scanStatus "pending".
C40_LocalNeverScanned ==
    /\ (InScanStages \/ req.scan_status # "none" \/ hist.quarantineCalled
           \/ hist.updated) =>
          /\ hist.wroteAzure
          /\ req.upload_success
          /\ ~hist.wroteLocal
    /\ hist.wroteLocal =>
          /\ ~req.upload_success
          /\ req.scan_status = "none"
          /\ quarantine = Empty
    /\ (Answered /\ response.storageMode = "local") =>
          /\ response.code = 201
          /\ response.scanStatus = "pending"
          /\ hist.wroteLocal

\* No durable storage configured: the archive is in the local directory and
\* the answer is 201, storageMode "local", scanStatus "pending".
C40_Witness ==
    /\ Answered
    /\ ~azureConfigured
    /\ response.code = 201
    /\ response.storageMode = "local"
    /\ response.scanStatus = "pending"
    /\ req.zip_name \in DOMAIN localdir
    /\ req.scan_status = "none"

====
